---- MODULE Spec2Model ----
(***************************************************************************)
(* TESSRYX kernel: the dependency graph store, the graph algorithms, the   *)
(* impact analyzer and the OR-Tools solver adapter, as state machines.     *)
(*                                                                         *)
(* Entity ids are opaque UUIDs in the source; here they are the strings of *)
(* IdSeq, and a fresh entity always takes the first id not yet in the      *)
(* graph (uuid4() never repeats, and the algorithms never compare ids      *)
(* other than for equality).                                               *)
(***************************************************************************)
EXTENDS Integers, Sequences, FiniteSets, TLC

IdSeq == <<"a", "b", "c", "d">>
Ids == {IdSeq[i] : i \in 1..Len(IdSeq)}

\* Bound on the number of relations ever added to one graph.
MaxEdges == 4

\* Largest max_depth passed to the transitive queries.
MaxDepth == 3

\* Bound on the entities plus relations of the graph a writer builds while a
\* reader holds snapshots of it.
MaxAdds == 4

\* The scheduling horizon.  The adapter uses NewIntVar(0, 1000, ...); the
\* model keeps the horizon a parameter and scales it down so that the
\* assignments of the CP model can be enumerated.
Horizon == 4

\* Longest constraint list handed to one solver call.
MaxConstraints == 2

\* The longest constraint list handed to find_alternatives and the largest
\* max_solutions asked of it.
MaxAltConstraints == 1
MaxSolutions == 2

\* find_all_paths is called with max_paths from 0 to MaxPaths.
MaxPaths == 1

\* A ledger takes at most MaxRecords record calls and MaxValidations
\* validate calls.
MaxRecords == 2
MaxValidations == 1

VARIABLES
    graph,      \* the DependencyGraph value the session currently holds
    last,       \* the last call made on it and what it returned or raised
    heap,       \* the networkx graph objects alive: reference -> contents
    writer,     \* a thread adding to a graph: its place in the add call
    reader,     \* a thread holding a graph: the reference and what it saw
    solver,     \* the fields of an ORToolsSolver instance
    call,       \* the last solver call: its arguments and what it returned
    threads,    \* the threads inside solve: arguments, locals, position
    cpsolver,   \* self._solver: the response of the CpSolver object it holds
    ledger,     \* the fields of a ProvenanceLedger
    probe       \* the last ledger call, with the statistics before and after

vars == <<graph, last, heap, writer, reader, solver, call, threads, cpsolver,
          ledger, probe>>

ledgerVars == <<ledger, probe>>

graphVars == <<graph, last>>
threadVars == <<threads, cpsolver>>
stepVars == <<heap, writer, reader, threadVars>>
solverVars == <<solver, call>>

Range(s) == {s[i] : i \in DOMAIN s}

-----------------------------------------------------------------------------
(* networkx.DiGraph as the code uses it: nodes in insertion order, and per *)
(* node the successors and predecessors in the order their dict holds them *)

EmptyGraph ==
    [nodes |-> <<>>, succ |-> [v \in Ids |-> <<>>], pred |-> [v \in Ids |-> <<>>]]

HasNode(G, v) == v \in Range(G.nodes)

HasEdge(G, u, v) == v \in Range(G.succ[u])

Edges(G) == {e \in Ids \X Ids : HasEdge(G, e[1], e[2])}

NodeSet(G) == Range(G.nodes)

\* DiGraph.copy(): nodes are re-added in order, then the edges grouped by
\* source node, so every predecessor list comes out in node order.
nx_copy(G) ==
    [nodes |-> G.nodes,
     succ  |-> G.succ,
     pred  |-> [v \in Ids |-> SelectSeq(G.nodes, LAMBDA u : HasEdge(G, u, v))]]

nx_add_node(G, v) ==
    IF HasNode(G, v) THEN G ELSE [G EXCEPT !.nodes = Append(@, v)]

\* DiGraph.add_edge(u, v): adds missing endpoints, keeps one edge per pair.
nx_add_edge(G, u, v) ==
    LET G1 == nx_add_node(nx_add_node(G, u), v)
    IN  IF HasEdge(G1, u, v) THEN G1
        ELSE [G1 EXCEPT !.succ[u] = Append(@, v), !.pred[v] = Append(@, u)]

-----------------------------------------------------------------------------
(* Relation construction and the two add operations of DependencyGraph     *)

\* Variant: the self-loop check is missing.
RelationRejected_unchecked(f, t) == FALSE

\* Relation.model_post_init: a relation from an entity to itself is refused.
RelationRejected(f, t) == f = t

\* DependencyGraph.add_entity: the exception it raises, or "ok".
AddEntityOutcome(G, e) ==
    IF HasNode(G, e) THEN "ValueError" ELSE "ok"

AddEntityGraph(G, e) == nx_add_node(nx_copy(G), e)

\* Variant: the existing-edge check is missing.
AddRelationOutcome_noduplicate(G, f, t) ==
    IF ~HasNode(G, f) THEN "ValueError"
    ELSE IF ~HasNode(G, t) THEN "ValueError"
    ELSE "ok"

\* DependencyGraph.add_relation: the exception it raises, or "ok".
AddRelationOutcome(G, f, t) ==
    IF ~HasNode(G, f) THEN "ValueError"
    ELSE IF ~HasNode(G, t) THEN "ValueError"
    ELSE IF HasEdge(G, f, t) THEN "ValueError"
    ELSE "ok"

AddRelationGraph(G, f, t) == nx_add_edge(nx_copy(G), f, t)

-----------------------------------------------------------------------------
(* Direct neighbours                                                        *)

\* DependencyGraph.get_dependencies: the successors, [] for an unknown id.
get_dependencies(G, x) == IF ~HasNode(G, x) THEN <<>> ELSE G.succ[x]

\* DependencyGraph.get_dependents: the predecessors, [] for an unknown id.
\* Variant: the successors are listed instead of the predecessors.
get_dependents_successors(G, x) == IF ~HasNode(G, x) THEN <<>> ELSE G.succ[x]

get_dependents(G, x) == IF ~HasNode(G, x) THEN <<>> ELSE G.pred[x]

Min(S) == CHOOSE m \in S : \A n \in S : m <= n

Reverse(s) == [i \in 1..Len(s) |-> s[Len(s) + 1 - i]]

-----------------------------------------------------------------------------
(* networkx.strongly_connected_components (Nuutila's variant of Tarjan),   *)
(* called by find_strongly_connected_components                            *)

SccStart ==
    [preorder |-> [v \in Ids |-> 0], lowlink |-> [v \in Ids |-> 0],
     found |-> {}, sccq |-> <<>>, i |-> 0, nbr |-> [v \in Ids |-> 0],
     queue |-> <<>>, out |-> <<>>]

\* Variant: the low-link also looks at successors whose component is
\* already complete.
SccVisit_allsuccessors(G, st) ==
    LET v    == st.queue[Len(st.queue)]
        i1   == IF st.preorder[v] = 0 THEN st.i + 1 ELSE st.i
        pre  == IF st.preorder[v] = 0 THEN [st.preorder EXCEPT ![v] = i1]
                ELSE st.preorder
        sv   == G.succ[v]
        cand == {k \in (st.nbr[v] + 1)..Len(sv) : pre[sv[k]] = 0}
    IN  IF cand # {}
        THEN [st EXCEPT !.i = i1, !.preorder = pre, !.nbr[v] = Min(cand),
                        !.queue = Append(@, sv[Min(cand)])]
        ELSE
          LET low  == Min({pre[v]} \cup
                          {IF pre[w] > pre[v] THEN st.lowlink[w] ELSE pre[w] :
                             w \in Range(sv)})
              q1   == SubSeq(st.queue, 1, Len(st.queue) - 1)
              n    == Len(st.sccq)
              from == Min({j \in 1..(n + 1) :
                             \A k \in j..n : pre[st.sccq[k]] > pre[v]})
              scc  == {v} \cup {st.sccq[k] : k \in from..n}
          IN  IF low = pre[v]
              THEN [st EXCEPT !.i = i1, !.preorder = pre, !.nbr[v] = Len(sv),
                              !.lowlink[v] = low, !.queue = q1,
                              !.sccq = SubSeq(@, 1, from - 1),
                              !.found = @ \cup scc, !.out = Append(@, scc)]
              ELSE [st EXCEPT !.i = i1, !.preorder = pre, !.nbr[v] = Len(sv),
                              !.lowlink[v] = low, !.queue = q1,
                              !.sccq = Append(@, v)]

\* One pass of the body of `while queue:`.
SccVisit(G, st) ==
    LET v    == st.queue[Len(st.queue)]
        i1   == IF st.preorder[v] = 0 THEN st.i + 1 ELSE st.i
        pre  == IF st.preorder[v] = 0 THEN [st.preorder EXCEPT ![v] = i1]
                ELSE st.preorder
        sv   == G.succ[v]
        cand == {k \in (st.nbr[v] + 1)..Len(sv) : pre[sv[k]] = 0}
    IN  IF cand # {}
        THEN [st EXCEPT !.i = i1, !.preorder = pre, !.nbr[v] = Min(cand),
                        !.queue = Append(@, sv[Min(cand)])]
        ELSE
          LET low  == Min({pre[v]} \cup
                          {IF pre[w] > pre[v] THEN st.lowlink[w] ELSE pre[w] :
                             w \in Range(sv) \ st.found})
              q1   == SubSeq(st.queue, 1, Len(st.queue) - 1)
              n    == Len(st.sccq)
              from == Min({j \in 1..(n + 1) :
                             \A k \in j..n : pre[st.sccq[k]] > pre[v]})
              scc  == {v} \cup {st.sccq[k] : k \in from..n}
          IN  IF low = pre[v]
              THEN [st EXCEPT !.i = i1, !.preorder = pre, !.nbr[v] = Len(sv),
                              !.lowlink[v] = low, !.queue = q1,
                              !.sccq = SubSeq(@, 1, from - 1),
                              !.found = @ \cup scc, !.out = Append(@, scc)]
              ELSE [st EXCEPT !.i = i1, !.preorder = pre, !.nbr[v] = Len(sv),
                              !.lowlink[v] = low, !.queue = q1,
                              !.sccq = Append(@, v)]

RECURSIVE SccWhile(_, _)
SccWhile(G, st) == IF st.queue = <<>> THEN st ELSE SccWhile(G, SccVisit(G, st))

RECURSIVE SccFor(_, _, _)
SccFor(G, st, n) ==
    IF n > Len(G.nodes) THEN st
    ELSE IF G.nodes[n] \in st.found THEN SccFor(G, st, n + 1)
    ELSE SccFor(G, SccWhile(G, [st EXCEPT !.queue = <<G.nodes[n]>>]), n + 1)

\* The components in the order the generator yields them.
nx_strongly_connected_components(G) == SccFor(G, SccStart, 1).out

\* list.sort(key=len, reverse=True): stable, larger components first.
RECURSIVE SortByLenDesc(_)
SortByLenDesc(s) ==
    IF s = <<>> THEN <<>>
    ELSE LET rest == SortByLenDesc(SubSeq(s, 1, Len(s) - 1))
             x    == s[Len(s)]
             keep == {j \in 0..Len(rest) :
                        \A k \in 1..j : Cardinality(rest[k]) >= Cardinality(x)}
             at   == CHOOSE j \in keep : \A k \in keep : k <= j
         IN  SubSeq(rest, 1, at) \o <<x>> \o SubSeq(rest, at + 1, Len(rest))

\* Each component is a Python set turned into a list; it is kept as a set.
find_strongly_connected_components(G) ==
    SortByLenDesc(nx_strongly_connected_components(nx_copy(G)))

find_circular_dependencies(G) ==
    SelectSeq(find_strongly_connected_components(G),
              LAMBDA scc : Cardinality(scc) > 1)

-----------------------------------------------------------------------------
(* networkx.topological_sort (Kahn, generation by generation) and          *)
(* topological_sort                                                        *)

InDegree(G, v) == Len(G.pred[v])

RECURSIVE KahnChildren(_, _, _, _)
KahnChildren(ch, k, indeg, zero) ==
    IF k > Len(ch) THEN [indeg |-> indeg, zero |-> zero]
    ELSE LET c == ch[k] IN
         IF indeg[c] = 1
         THEN KahnChildren(ch, k + 1, [indeg EXCEPT ![c] = 0], Append(zero, c))
         ELSE KahnChildren(ch, k + 1, [indeg EXCEPT ![c] = @ - 1], zero)

RECURSIVE KahnGeneration(_, _, _, _, _)
KahnGeneration(G, gen, k, indeg, zero) ==
    IF k > Len(gen) THEN [indeg |-> indeg, zero |-> zero]
    ELSE LET r == KahnChildren(G.succ[gen[k]], 1, indeg, zero)
         IN  KahnGeneration(G, gen, k + 1, r.indeg, r.zero)

RECURSIVE KahnLoop(_, _, _, _)
KahnLoop(G, indeg, zero, order) ==
    IF zero = <<>>
    THEN [raised |-> IF \E v \in NodeSet(G) : indeg[v] > 0
                     THEN "NetworkXUnfeasible" ELSE "none",
          value  |-> order]
    ELSE LET r == KahnGeneration(G, zero, 1, indeg, <<>>)
         IN  KahnLoop(G, r.indeg, r.zero, order \o zero)

\* list(nx.topological_sort(G)): the order, or the exception it raises.
nx_topological_sort(G) ==
    KahnLoop(G, [v \in Ids |-> InDegree(G, v)],
             SelectSeq(G.nodes, LAMBDA v : InDegree(G, v) = 0), <<>>)

\* The exception classes of networkx.exception and their base classes.
BaseClass(c) ==
    CASE c = "NetworkXUnfeasible"    -> "NetworkXAlgorithmError"
      [] c = "NetworkXAlgorithmError" -> "NetworkXException"
      [] c = "NetworkXError"          -> "NetworkXException"
      [] c = "NetworkXNoPath"         -> "NetworkXUnfeasible"
      [] c = "NetworkXException"      -> "Exception"
      [] c = "KeyError"               -> "LookupError"
      [] c = "IndexError"             -> "LookupError"
      [] OTHER                        -> "Exception"

RECURSIVE IsInstance(_, _)
IsInstance(exc, cls) ==
    \/ exc = cls
    \/ exc # "Exception" /\ IsInstance(BaseClass(exc), cls)

\* The class named by the except clause of topological_sort.
TopoSortCaught == "NetworkXError"

\* Variant: the networkx order is returned without being reversed.
topological_sort_unreversed(G) ==
    LET r == nx_topological_sort(nx_copy(G)) IN
    IF r.raised = "none"
    THEN [raised |-> "none", value |-> r.value]
    ELSE [raised |-> r.raised, value |-> {}]

\* topological_sort: raised is "none" and value the order, or raised names
\* the exception that leaves the function and value is the cycle it carries.
topological_sort(G) ==
    LET r == nx_topological_sort(nx_copy(G)) IN
    IF r.raised = "none"
    THEN [raised |-> "none", value |-> Reverse(r.value)]
    ELSE IF IsInstance(r.raised, TopoSortCaught)
    THEN LET cycles == find_circular_dependencies(G) IN
         [raised |-> "CycleDetectedError",
          value  |-> IF cycles # <<>> THEN cycles[1] ELSE {}]
    ELSE [raised |-> r.raised, value |-> {}]

-----------------------------------------------------------------------------
(* Transitive dependencies and dependents: breadth-first with a depth      *)

NoneDepth == -1

Neighbours(G, dir, x) ==
    IF dir = "dependencies" THEN get_dependencies(G, x) ELSE get_dependents(G, x)

\* Variant: the depth test is `depth > max_depth`.
RECURSIVE BfsLoop_onemore(_, _, _, _, _)
BfsLoop_onemore(G, dir, max_depth, visited, queue) ==
    IF queue = <<>> THEN visited
    ELSE LET current_id == queue[1][1]
             depth      == queue[1][2]
             rest       == Tail(queue)
         IN  IF current_id \in visited
             THEN BfsLoop_onemore(G, dir, max_depth, visited, rest)
             ELSE LET v1 == visited \cup {current_id} IN
                  IF max_depth # NoneDepth /\ depth > max_depth
                  THEN BfsLoop_onemore(G, dir, max_depth, v1, rest)
                  ELSE LET new == SelectSeq(Neighbours(G, dir, current_id),
                                            LAMBDA n : n \notin v1)
                       IN  BfsLoop_onemore(G, dir, max_depth, v1,
                                   rest \o [k \in 1..Len(new) |-> <<new[k], depth + 1>>])

RECURSIVE BfsLoop(_, _, _, _, _)
BfsLoop(G, dir, max_depth, visited, queue) ==
    IF queue = <<>> THEN visited
    ELSE LET current_id == queue[1][1]
             depth      == queue[1][2]
             rest       == Tail(queue)
         IN  IF current_id \in visited
             THEN BfsLoop(G, dir, max_depth, visited, rest)
             ELSE LET v1 == visited \cup {current_id} IN
                  IF max_depth # NoneDepth /\ depth >= max_depth
                  THEN BfsLoop(G, dir, max_depth, v1, rest)
                  ELSE LET new == SelectSeq(Neighbours(G, dir, current_id),
                                            LAMBDA n : n \notin v1)
                       IN  BfsLoop(G, dir, max_depth, v1,
                                   rest \o [k \in 1..Len(new) |-> <<new[k], depth + 1>>])

Transitive(G, dir, entity_id, max_depth) ==
    IF ~HasNode(G, entity_id) THEN {}
    ELSE BfsLoop(G, dir, max_depth, {}, <<<<entity_id, 0>>>>) \ {entity_id}

get_transitive_dependencies(G, entity_id, max_depth) ==
    Transitive(G, "dependencies", entity_id, max_depth)

get_transitive_dependents(G, entity_id, max_depth) ==
    Transitive(G, "dependents", entity_id, max_depth)

-----------------------------------------------------------------------------
(* Paths: find_path and find_all_paths                                     *)

\* Marks of the two search dicts of the shortest-path search: an id that is
\* not a key, and the value None of the id the search started from.
NotSeen == "?"
Root == "-"

\* The (v, w) pairs `for v in this_level: for w in adj[v]` runs through.
RECURSIVE LevelPairs(_, _, _)
LevelPairs(adj, level, k) ==
    IF k > Len(level) THEN <<>>
    ELSE [i \in 1..Len(adj[level[k]]) |-> <<level[k], adj[level[k]][i]>>]
            \o LevelPairs(adj, level, k + 1)

\* One level of one direction: every new w enters the dict and the fringe,
\* and the first w the opposite search has seen ends the search.
RECURSIVE ScanLevel(_, _, _, _, _)
ScanLevel(pairs, k, mine, other, fringe) ==
    IF k > Len(pairs) THEN [w |-> NotSeen, mine |-> mine, fringe |-> fringe]
    ELSE LET v   == pairs[k][1]
             w   == pairs[k][2]
             new == mine[w] = NotSeen
             m1  == IF new THEN [mine EXCEPT ![w] = v] ELSE mine
             f1  == IF new THEN Append(fringe, w) ELSE fringe
         IN  IF other[w] # NotSeen
             THEN [w |-> w, mine |-> m1, fringe |-> f1]
             ELSE ScanLevel(pairs, k + 1, m1, other, f1)

\* The search from both ends, the smaller fringe first; w = NotSeen stands
\* for NetworkXNoPath.
RECURSIVE BidirectionalLoop(_, _, _, _, _)
BidirectionalLoop(G, pred, succ, forward_fringe, reverse_fringe) ==
    IF forward_fringe = <<>> \/ reverse_fringe = <<>>
    THEN [pred |-> pred, succ |-> succ, w |-> NotSeen]
    ELSE IF Len(forward_fringe) <= Len(reverse_fringe)
         THEN LET r == ScanLevel(LevelPairs(G.succ, forward_fringe, 1), 1,
                                 pred, succ, <<>>)
              IN  IF r.w # NotSeen
                  THEN [pred |-> r.mine, succ |-> succ, w |-> r.w]
                  ELSE BidirectionalLoop(G, r.mine, succ, r.fringe, reverse_fringe)
         ELSE LET r == ScanLevel(LevelPairs(G.pred, reverse_fringe, 1), 1,
                                 succ, pred, <<>>)
              IN  IF r.w # NotSeen
                  THEN [pred |-> pred, succ |-> r.mine, w |-> r.w]
                  ELSE BidirectionalLoop(G, pred, r.mine, forward_fringe, r.fringe)

RECURSIVE WalkLinks(_, _)
WalkLinks(link, w) ==
    IF w = Root THEN <<>> ELSE <<w>> \o WalkLinks(link, link[w])

NoPath == [none |-> TRUE, path |-> <<>>]
PathOf(p) == [none |-> FALSE, path |-> p]

\* nx.shortest_path(G, source, target) for distinct nodes of G.
nx_shortest_path(G, source, target) ==
    LET r == BidirectionalLoop(G,
                 [v \in Ids |-> IF v = source THEN Root ELSE NotSeen],
                 [v \in Ids |-> IF v = target THEN Root ELSE NotSeen],
                 <<source>>, <<target>>)
    IN  IF r.w = NotSeen THEN NoPath
        ELSE PathOf(Reverse(WalkLinks(r.pred, r.w)) \o Tail(WalkLinks(r.succ, r.w)))

\* Variant: the membership test comes before the source = target shortcut.
find_path_checkfirst(G, source_id, target_id) ==
    IF ~HasNode(G, source_id) \/ ~HasNode(G, target_id) THEN NoPath
    ELSE IF source_id = target_id THEN PathOf(<<source_id>>)
    ELSE nx_shortest_path(nx_copy(G), source_id, target_id)

find_path(G, source_id, target_id) ==
    IF source_id = target_id THEN PathOf(<<source_id>>)
    ELSE IF ~HasNode(G, source_id) \/ ~HasNode(G, target_id) THEN NoPath
    ELSE nx_shortest_path(nx_copy(G), source_id, target_id)

\* nx.all_simple_paths(G, source, target) for distinct nodes of G: depth
\* first from the path walked so far, the children in successor order.
RECURSIVE SimplePathsFrom(_, _, _, _)
SimplePathsFrom(G, visited, target, k) ==
    LET children == G.succ[visited[Len(visited)]] IN
    IF k > Len(children) THEN <<>>
    ELSE LET child == children[k]
             here  == IF child \in Range(visited) THEN <<>>
                      ELSE IF child = target THEN <<Append(visited, child)>>
                      ELSE SimplePathsFrom(G, Append(visited, child), target, 1)
         IN  here \o SimplePathsFrom(G, visited, target, k + 1)

nx_all_simple_paths(G, source, target) == SimplePathsFrom(G, <<source>>, target, 1)

\* for path in all_paths: paths.append(path); if len(paths) >= max_paths: break
RECURSIVE TakePaths(_, _, _, _)
TakePaths(all_paths, k, paths, max_paths) ==
    IF k > Len(all_paths) THEN paths
    ELSE LET p1 == Append(paths, all_paths[k])
         IN  IF Len(p1) >= max_paths THEN p1
             ELSE TakePaths(all_paths, k + 1, p1, max_paths)

\* list.sort(key=len): stable, shorter paths first.
RECURSIVE SortByLen(_)
SortByLen(s) ==
    IF s = <<>> THEN <<>>
    ELSE LET rest == SortByLen(SubSeq(s, 1, Len(s) - 1))
             x    == s[Len(s)]
             keep == {j \in 0..Len(rest) : \A k \in 1..j : Len(rest[k]) <= Len(x)}
             at   == CHOOSE j \in keep : \A k \in keep : k <= j
         IN  SubSeq(rest, 1, at) \o <<x>> \o SubSeq(rest, at + 1, Len(rest))

find_all_paths(G, source_id, target_id, max_paths) ==
    IF source_id = target_id THEN <<<<source_id>>>>
    ELSE IF ~HasNode(G, source_id) \/ ~HasNode(G, target_id) THEN <<>>
    ELSE SortByLen(TakePaths(nx_all_simple_paths(nx_copy(G), source_id, target_id),
                             1, <<>>, max_paths))

\* nx.has_path: shortest_path, with NetworkXNoPath turned into False.
nx_has_path(G, source, target) == ~nx_shortest_path(G, source, target).none

\* Variant: the membership test comes before the source = target shortcut.
is_reachable_checkfirst(G, source_id, target_id) ==
    IF ~HasNode(G, source_id) \/ ~HasNode(G, target_id) THEN FALSE
    ELSE IF source_id = target_id THEN TRUE
    ELSE nx_has_path(nx_copy(G), source_id, target_id)

is_reachable(G, source_id, target_id) ==
    IF source_id = target_id THEN TRUE
    ELSE IF ~HasNode(G, source_id) \/ ~HasNode(G, target_id) THEN FALSE
    ELSE nx_has_path(nx_copy(G), source_id, target_id)

-----------------------------------------------------------------------------
(* DependencyImpactAnalyzer.find_critical_path                             *)

\* for dep in deps: keep the first strictly longer path.
RECURSIVE BestPath(_, _, _, _)
BestPath(deps, k, lp, best) ==
    IF k > Len(deps) THEN best
    ELSE LET dep_path == IF lp[deps[k]] # <<>> THEN lp[deps[k]] ELSE <<deps[k]>>
         IN  BestPath(deps, k + 1, lp,
                      IF Len(dep_path) > Len(best) THEN dep_path ELSE best)

\* The order in which find_critical_path walks the topological order.
CriticalPathOrder(topo_order) == Reverse(topo_order)

\* longest_path_to after the loop; <<>> stands for a missing key.
RECURSIVE LongestPathTo(_, _, _, _)
LongestPathTo(G, order, k, lp) ==
    IF k > Len(order) THEN lp
    ELSE LET node_id == order[k]
             deps    == get_dependencies(G, node_id)
         IN  LongestPathTo(G, order, k + 1,
               [lp EXCEPT ![node_id] =
                  IF deps = <<>> THEN <<node_id>>
                  ELSE <<node_id>> \o BestPath(deps, 1, lp, <<>>)])

\* max(values, key=len): the first longest value in insertion order.
RECURSIVE FirstLongest(_, _, _, _)
FirstLongest(order, k, lp, best) ==
    IF k > Len(order) THEN best
    ELSE FirstLongest(order, k + 1, lp,
                      IF Len(lp[order[k]]) > Len(best) THEN lp[order[k]] ELSE best)

\* None is the empty path; CriticalPath.length is the length of the path.
find_critical_path(G) ==
    IF Len(find_circular_dependencies(G)) > 0 THEN <<>>
    ELSE LET t == topological_sort(G) IN
         IF t.raised # "none" THEN <<>>
         ELSE LET order == CriticalPathOrder(t.value)
                  lp    == LongestPathTo(G, order, 1, [v \in Ids |-> <<>>])
              IN  FirstLongest(order, 1, lp, <<>>)

-----------------------------------------------------------------------------
(* DependencyImpactAnalyzer: metrics, recommendations and risk score       *)

\* The interpreter's limit on nested calls (1000 by default), scaled down;
\* a call nested deeper raises RecursionError.
RecursionLimit == 6

DfsStart ==
    [visited |-> {}, max_depth |-> 0, visits |-> [v \in Ids |-> 0], raised |-> FALSE]

\* Variant: the visited guard is missing.
AlreadyVisited_never(st, current_id) == FALSE

\* if current_id in visited: return
AlreadyVisited(st, current_id) == current_id \in st.visited

\* _calculate_max_depth.dfs and its `for node in next_nodes` loop; visits
\* counts how often the body behind the guard has run for an entity.
RECURSIVE Dfs(_, _, _, _, _)
RECURSIVE DfsFor(_, _, _, _, _, _)
Dfs(G, direction, current_id, depth, st) ==
    IF st.raised THEN st
    ELSE IF depth > RecursionLimit THEN [st EXCEPT !.raised = TRUE]
    ELSE IF AlreadyVisited(st, current_id) THEN st
    ELSE DfsFor(G, direction, Neighbours(G, direction, current_id), 1, depth,
                [st EXCEPT !.visited = @ \cup {current_id},
                           !.max_depth = IF depth > @ THEN depth ELSE @,
                           !.visits[current_id] = @ + 1])

DfsFor(G, direction, next_nodes, k, depth, st) ==
    IF k > Len(next_nodes) \/ st.raised THEN st
    ELSE DfsFor(G, direction, next_nodes, k + 1, depth,
                Dfs(G, direction, next_nodes[k], depth + 1, st))

calculate_max_depth(G, entity_id, direction) == Dfs(G, direction, entity_id, 0, DfsStart)

\* The severity buckets of the blast radius.
Severity(blast_radius) ==
    IF blast_radius < 5 THEN "minimal"
    ELSE IF blast_radius < 21 THEN "low"
    ELSE IF blast_radius < 101 THEN "medium"
    ELSE IF blast_radius < 501 THEN "high"
    ELSE "critical"

NoMetrics ==
    [direct_dependents |-> 0, total_dependents |-> 0, direct_dependencies |-> 0,
     total_dependencies |-> 0, severity |-> "none", is_critical_path |-> FALSE,
     circular_dependencies |-> 0, max_depth_to_dependents |-> 0,
     max_depth_from_dependencies |-> 0, visits_to_dependents |-> [v \in Ids |-> 0],
     visits_from_dependencies |-> [v \in Ids |-> 0]]

\* calculate_impact_metrics: the exception raised and the ImpactMetrics; the
\* two visits fields are the visit counts of the two depth computations.
calculate_impact_metrics(G, entity_id) ==
    IF ~HasNode(G, entity_id) THEN [raised |-> "ValueError", metrics |-> NoMetrics]
    ELSE LET direct_deps            == get_dependencies(G, entity_id)
             direct_dependents      == get_dependents(G, entity_id)
             transitive_deps        == get_transitive_dependencies(G, entity_id, NoneDepth)
             transitive_dependents  == get_transitive_dependents(G, entity_id, NoneDepth)
             cycles                 == find_circular_dependencies(G)
             critical_path          == find_critical_path(G)
             to_dependents          == calculate_max_depth(G, entity_id, "dependents")
             from_deps              == calculate_max_depth(G, entity_id, "dependencies")
         IN  IF to_dependents.raised \/ from_deps.raised
             THEN [raised |-> "RecursionError", metrics |-> NoMetrics]
             ELSE [raised |-> "none",
                   metrics |->
                     [direct_dependents |-> Len(direct_dependents),
                      total_dependents |-> Cardinality(transitive_dependents),
                      direct_dependencies |-> Len(direct_deps),
                      total_dependencies |-> Cardinality(transitive_deps),
                      severity |-> Severity(Cardinality(transitive_dependents)),
                      is_critical_path |-> entity_id \in Range(critical_path),
                      circular_dependencies |->
                         Cardinality({i \in DOMAIN cycles : entity_id \in cycles[i]}),
                      max_depth_to_dependents |-> to_dependents.max_depth,
                      max_depth_from_dependencies |-> from_deps.max_depth,
                      visits_to_dependents |-> to_dependents.visits,
                      visits_from_dependencies |-> from_deps.visits]]

is_high_risk(metrics) == metrics.severity \in {"high", "critical"}

is_hub(metrics) == metrics.direct_dependents > 10

\* The recommendations, each named by its closing words.
RecCoordinate == "coordinate with teams before deploying"
RecResolveCycles == "resolve cycles before making breaking changes"
RecBottleneck == "delays here will bottleneck entire deployment"
RecGradual == "consider gradual rollout or feature flags"
RecSafe == "Low impact change - safe to proceed"

When(cond, rec) == IF cond THEN <<rec>> ELSE <<>>

\* Variant: the safe-to-proceed advice is held back for an entity on a cycle.
generate_recommendations_nocycle(metrics, circular_chains) ==
    When(metrics.total_dependents > 100, RecCoordinate)
       \o When(circular_chains # <<>>, RecResolveCycles)
       \o When(metrics.is_critical_path, RecBottleneck)
       \o When(is_hub(metrics), RecGradual)
       \o When(metrics.severity = "minimal" /\ circular_chains = <<>>, RecSafe)

generate_recommendations(metrics, circular_chains) ==
    When(metrics.total_dependents > 100, RecCoordinate)
       \o When(circular_chains # <<>>, RecResolveCycles)
       \o When(metrics.is_critical_path, RecBottleneck)
       \o When(is_hub(metrics), RecGradual)
       \o When(metrics.severity = "minimal", RecSafe)

\* The score in ten-thousandths: min(total_dependents / 1000.0, 1.0) * 0.4 is
\* min(4 * total_dependents, 4000) of them.
calculate_risk_score(metrics, circular_chains) ==
    LET blast == IF 4 * metrics.total_dependents < 4000
                 THEN 4 * metrics.total_dependents ELSE 4000
        score == blast
                   + (IF circular_chains # <<>> THEN 3000 ELSE 0)
                   + (IF metrics.is_critical_path THEN 2000 ELSE 0)
                   + (IF is_hub(metrics) THEN 1000 ELSE 0)
    IN  IF score < 10000 THEN score ELSE 10000

NoAnalysis ==
    [raised |-> "none", metrics |-> NoMetrics, affected_entities |-> {},
     critical_paths |-> <<>>, circular_dependency_chains |-> <<>>,
     recommendations |-> <<>>, risk_score |-> 0]

find_critical_paths_involving(G, entity_id) ==
    LET critical == find_critical_path(G)
    IN  IF critical # <<>> /\ entity_id \in Range(critical) THEN <<critical>> ELSE <<>>

analyze_change_impact(G, entity_id) ==
    LET m == calculate_impact_metrics(G, entity_id) IN
    IF m.raised # "none" THEN [NoAnalysis EXCEPT !.raised = m.raised]
    ELSE LET circular_chains == SelectSeq(find_circular_dependencies(G),
                                          LAMBDA cycle : entity_id \in cycle)
         IN  [raised |-> "none",
              metrics |-> m.metrics,
              affected_entities |-> get_transitive_dependents(G, entity_id, NoneDepth),
              critical_paths |-> find_critical_paths_involving(G, entity_id),
              circular_dependency_chains |-> circular_chains,
              recommendations |-> generate_recommendations(m.metrics, circular_chains),
              risk_score |-> calculate_risk_score(m.metrics, circular_chains)]

\* risk_score < 0.3, in ten-thousandths.
is_safe_to_change(analysis) ==
    /\ analysis.risk_score < 3000
    /\ ~is_high_risk(analysis.metrics)
    /\ Len(analysis.circular_dependency_chains) = 0

-----------------------------------------------------------------------------
(* The OR-Tools adapter.  A CpModel is its variables (each with a domain)  *)
(* and its constraints in the order they were added; a variable is its     *)
(* index in the model, as in the CP-SAT proto.                             *)

TaskSeq == <<"a", "b", "c">>
Tasks == Range(TaskSeq)

\* Entity.metadata["duration"]: absent, an integer, or a string.
DurAbsent == [kind |-> "absent", val |-> 0]
DurInt(n) == [kind |-> "int", val |-> n]
DurStr == [kind |-> "str", val |-> 0]

DurChoices(id) ==
    CASE id = "a" -> {DurAbsent, DurInt(2)}
      [] id = "b" -> {DurInt(2), DurInt(0)}
      [] OTHER    -> {DurAbsent, DurStr, DurInt(Horizon + 1)}

EntityChoices == UNION {{[id |-> x, duration |-> d] : d \in DurChoices(x)} : x \in Tasks}

\* Entity lists: the first n tasks, each with one of its durations.
EntityLists ==
    UNION {{es \in [1..n -> EntityChoices] : \A i \in 1..n : es[i].id = TaskSeq[i]} :
             n \in 0..Len(TaskSeq)}

Constraint(type, entities) == [type |-> type, entities |-> entities]

ConstraintChoices ==
    {Constraint("precedence", <<"a", "b">>), Constraint("precedence", <<"b", "a">>),
     Constraint("precedence", <<"b", "c">>), Constraint("precedence", <<"a">>),
     Constraint("mutex", <<"a", "b">>),
     Constraint("choice", <<"a", "b">>), Constraint("choice", <<"b", "c">>),
     Constraint("deadline", <<"a">>)}

ConstraintLists == UNION {[1..n -> ConstraintChoices] : n \in 0..MaxConstraints}

Objectives == {"none", "minimize_makespan"}

EmptyModel == [vars |-> <<>>, cts |-> <<>>, minimize |-> 0]

\* self._variables: key (entity id, suffix) -> variable or number; Missing
\* for a key the dict does not hold.
Missing == -1
Suffixes == {"start", "end", "duration", "selected"}
EmptyTable == [k \in Ids \X Suffixes |-> Missing]

\* ORToolsSolver.__init__
\* entry is the set of keys the table held when the last call began.
NewSolver ==
    [model |-> EmptyModel, variables |-> EmptyTable, used |-> FALSE,
     entry |-> {}]

\* An exception: its class and its message.
Exc(class, msg) == [class |-> class, msg |-> msg]
NoExc == Exc("none", "")

\* A call on the solver: its arguments, the Solution it returned or the
\* exception it let through to its caller, the status the backend answered
\* ("none" when Solve was not reached), and what other operations return.
NoSolution == [status |-> "none", assignments |-> <<>>, proof |-> ""]
NoOut == [kind |-> "none"]
NoSolverCall ==
    [op |-> "none", entities |-> <<>>, constraints |-> <<>>, objective |-> "none",
     max_solutions |-> 0, solution |-> NoSolution, raised |-> NoExc,
     backend |-> "none", out |-> NoOut]

Ct(kind, x, y, k, xs) == [kind |-> kind, x |-> x, y |-> y, k |-> k, xs |-> xs]

NewIntVar(m, lo, hi) == [m EXCEPT !.vars = Append(@, [kind |-> "int", lo |-> lo, hi |-> hi])]
NewBoolVar(m) == [m EXCEPT !.vars = Append(@, [kind |-> "bool", lo |-> 0, hi |-> 1])]
AddCt(m, ct) == [m EXCEPT !.cts = Append(@, ct)]

\* The state of an encoding: the model, the table, and the exception that
\* stopped it (NoExc while none was raised).
Enc(m, t, raised) == [model |-> m, variables |-> t, raised |-> raised]

\* _encode_variables, one entity: two variables, end == start + duration.
EncodeEntity(st, entity) ==
    LET duration == IF entity.duration.kind = "absent" THEN DurInt(1) ELSE entity.duration
        m1    == NewIntVar(NewIntVar(st.model, 0, Horizon), 0, Horizon)
        start == Len(m1.vars) - 1
        end   == Len(m1.vars)
    IN  IF duration.kind # "int"
        THEN Enc(m1, st.variables, Exc("TypeError", "unsupported operand type(s) for +"))
        ELSE Enc(AddCt(m1, Ct("eq_sum", end, start, duration.val, <<>>)),
                 [st.variables EXCEPT ![<<entity.id, "start">>] = start,
                                      ![<<entity.id, "end">>] = end,
                                      ![<<entity.id, "duration">>] = duration.val],
                 NoExc)

RECURSIVE encode_variables(_, _, _)
encode_variables(st, entities, k) ==
    IF k > Len(entities) \/ st.raised # NoExc THEN st
    ELSE encode_variables(EncodeEntity(st, entities[k]), entities, k + 1)

\* Variant: the start of A, not its end, is put before the start of B.
encode_precedence_start(st, c) ==
    IF Len(c.entities) < 2 THEN [st EXCEPT !.raised = Exc("IndexError", "list index out of range")]
    ELSE LET a_start == st.variables[<<c.entities[1], "start">>]
             b_start == st.variables[<<c.entities[2], "start">>]
         IN  IF a_start = Missing \/ b_start = Missing
             THEN [st EXCEPT !.raised = Exc("KeyError", "key")]
             ELSE [st EXCEPT !.model = AddCt(@, Ct("le", a_start, b_start, 0, <<>>))]

\* _encode_precedence: a_end <= b_start.
encode_precedence(st, c) ==
    IF Len(c.entities) < 2 THEN [st EXCEPT !.raised = Exc("IndexError", "list index out of range")]
    ELSE LET a_end   == st.variables[<<c.entities[1], "end">>]
             b_start == st.variables[<<c.entities[2], "start">>]
         IN  IF a_end = Missing \/ b_start = Missing
             THEN [st EXCEPT !.raised = Exc("KeyError", "key")]
             ELSE [st EXCEPT !.model = AddCt(@, Ct("le", a_end, b_start, 0, <<>>))]

\* _encode_mutex: two interval variables under AddNoOverlap.
encode_mutex(st, c) ==
    IF Len(c.entities) < 2 THEN [st EXCEPT !.raised = Exc("IndexError", "list index out of range")]
    ELSE LET a == c.entities[1]
             b == c.entities[2]
             t == st.variables
         IN  IF \E key \in {a, b} \X {"start", "end", "duration"} : t[key] = Missing
             THEN [st EXCEPT !.raised = Exc("KeyError", "key")]
             ELSE LET m1 == AddCt(st.model, Ct("interval", t[<<a, "start">>],
                                      t[<<a, "end">>], t[<<a, "duration">>], <<>>))
                      m2 == AddCt(m1, Ct("interval", t[<<b, "start">>],
                                      t[<<b, "end">>], t[<<b, "duration">>], <<>>))
                  IN  [st EXCEPT !.model =
                         AddCt(m2, Ct("no_overlap", 0, 0, 0, <<Len(m1.cts), Len(m2.cts)>>))]

\* _encode_choice: one new boolean per listed entity, stored under the
\* entity's "selected" key; exactly one of the new booleans is true.
RECURSIVE ChoiceVars(_, _, _, _)
ChoiceVars(st, ents, k, bool_vars) ==
    IF k > Len(ents)
    THEN [st EXCEPT !.model = AddCt(@, Ct("exactly_one", 0, 0, 0, bool_vars))]
    ELSE LET m1 == NewBoolVar(st.model)
             selected == Len(m1.vars)
         IN  ChoiceVars([st EXCEPT !.model = m1,
                                   !.variables[<<ents[k], "selected">>] = selected],
                        ents, k + 1, Append(bool_vars, selected))

encode_choice(st, c) == ChoiceVars(st, c.entities, 1, <<>>)

\* get_capabilities(): the constraint types the adapter says it supports.
get_capabilities == {"precedence", "mutex", "choice"}

UnsupportedMsg == "Unsupported constraint type"

\* Variant: the dispatch has no branch for choice.
RECURSIVE encode_constraints_nochoice(_, _, _)
encode_constraints_nochoice(st, constraints, k) ==
    IF k > Len(constraints) \/ st.raised # NoExc THEN st
    ELSE LET c == constraints[k]
             st1 == IF c.type = "precedence" THEN encode_precedence(st, c)
                    ELSE IF c.type = "mutex" THEN encode_mutex(st, c)
                    ELSE [st EXCEPT !.raised = Exc("ValueError", UnsupportedMsg)]
         IN  encode_constraints_nochoice(st1, constraints, k + 1)

\* _encode_constraints: the constraints in order, stopping at the first
\* that raises.
RECURSIVE encode_constraints(_, _, _)
encode_constraints(st, constraints, k) ==
    IF k > Len(constraints) \/ st.raised # NoExc THEN st
    ELSE LET c == constraints[k]
             st1 == IF c.type = "precedence" THEN encode_precedence(st, c)
                    ELSE IF c.type = "mutex" THEN encode_mutex(st, c)
                    ELSE IF c.type = "choice" THEN encode_choice(st, c)
                    ELSE [st EXCEPT !.raised = Exc("ValueError", UnsupportedMsg)]
         IN  encode_constraints(st1, constraints, k + 1)

\* _encode_objective: makespan >= every end variable, minimised.
encode_objective(st, objective) ==
    IF objective # "minimize_makespan" \/ st.raised # NoExc THEN st
    ELSE LET m1 == NewIntVar(st.model, 0, Horizon)
             makespan == Len(m1.vars)
             ends == {st.variables[<<e, "end">>] : e \in Ids} \ {Missing}
             RECURSIVE AddAll(_, _)
             AddAll(m, S) ==
                 IF S = {} THEN m
                 ELSE LET v == Min(S)
                      IN  AddAll(AddCt(m, Ct("le", v, makespan, 0, <<>>)), S \ {v})
         IN  [st EXCEPT !.model = [AddAll(m1, ends) EXCEPT !.minimize = makespan]]

\* Variant: the table of the previous call is kept.
FreshEncoding_keeptable(s) == Enc(EmptyModel, s.variables, NoExc)

\* self._model = cp_model.CpModel(); self._variables = {}: what a call
\* starts its encoding from, s being the instance as the call finds it.
FreshEncoding(s) == Enc(EmptyModel, EmptyTable, NoExc)

\* solve() up to the call of the backend, on the instance s.
EncodeFrom(s, entities, constraints, objective) ==
    encode_objective(
        encode_constraints(encode_variables(FreshEncoding(s), entities, 1),
                           constraints, 1),
        objective)

Encode(entities, constraints, objective) ==
    EncodeFrom(solver, entities, constraints, objective)

\* The instance after a call that left the encoding st.
After(st) ==
    [model |-> st.model, variables |-> st.variables, used |-> TRUE,
     entry |-> {key \in DOMAIN solver.variables : solver.variables[key] # Missing}]

-----------------------------------------------------------------------------
(* CpSolver.Solve: the assignments of a model                              *)

Max(S) == CHOOSE m \in S : \A n \in S : n <= m

VarIds(m) == 1..Len(m.vars)
CtIds(m) == 1..Len(m.cts)

\* The variables fixed by the others: the left side of an eq_sum and the
\* minimised variable.  Every other variable is free within its domain.
LinkOf(m, x) == {i \in CtIds(m) : m.cts[i].kind = "eq_sum" /\ m.cts[i].x = x}
Derived(m) == {x \in VarIds(m) : LinkOf(m, x) # {} \/ x = m.minimize}
FreeOf(m, kind) == {x \in VarIds(m) \ Derived(m) : m.vars[x].kind = kind}

Holds(m, v, ct) ==
    CASE ct.kind = "eq_sum"   -> v[ct.x] = v[ct.y] + ct.k
      [] ct.kind = "le"       -> v[ct.x] <= v[ct.y]
      [] ct.kind = "interval" -> v[ct.x] + ct.k = v[ct.y]
      [] ct.kind = "no_overlap" ->
            \A i \in DOMAIN ct.xs, j \in DOMAIN ct.xs : i < j =>
               LET p == m.cts[ct.xs[i]]
                   q == m.cts[ct.xs[j]]
               IN  v[p.y] <= v[q.x] \/ v[q.y] <= v[p.x]
      [] ct.kind = "exactly_one" ->
            Cardinality({i \in DOMAIN ct.xs : v[ct.xs[i]] = 1}) = 1

\* Every assignment of the model's variables that satisfies the model.  The
\* minimised variable takes the least value its constraints allow.
Solutions(m) ==
    LET link  == [x \in VarIds(m) |-> IF LinkOf(m, x) = {} THEN 0 ELSE Min(LinkOf(m, x))]
        under == {m.cts[i].x : i \in {j \in CtIds(m) :
                      m.cts[j].kind = "le" /\ m.cts[j].y = m.minimize}}
        Complete(f) ==
            LET v1 == [x \in VarIds(m) |->
                         IF x \in DOMAIN f THEN f[x]
                         ELSE IF link[x] # 0 THEN f[m.cts[link[x]].y] + m.cts[link[x]].k
                         ELSE 0]
            IN  IF m.minimize = 0 THEN v1
                ELSE [v1 EXCEPT ![m.minimize] =
                        IF under = {} THEN 0 ELSE Max({v1[x] : x \in under})]
    IN  {v \in {Complete(fi @@ fb) :
                  fi \in [FreeOf(m, "int") -> 0..Horizon],
                  fb \in [FreeOf(m, "bool") -> 0..1]} :
            /\ \A x \in VarIds(m) : m.vars[x].lo <= v[x] /\ v[x] <= m.vars[x].hi
            /\ \A i \in CtIds(m) : Holds(m, v, m.cts[i])}

\* The variables a constraint refers to.
VarsOf(ct) ==
    CASE ct.kind \in {"eq_sum", "le", "interval"} -> {ct.x, ct.y}
      [] ct.kind = "exactly_one" -> Range(ct.xs)
      [] OTHER -> {}

\* Every constraint refers to variables of the model itself; a model that
\* refers to a variable it does not hold is answered MODEL_INVALID.
ValidModel(m) == \A i \in CtIds(m) : VarsOf(m.cts[i]) \subseteq VarIds(m)

\* What Solve may answer: a status and, with OPTIMAL or FEASIBLE, the
\* assignment Value() reads.  OPTIMAL comes with a solution of least
\* objective; FEASIBLE is a search with an objective stopped by the time
\* limit after a first solution; UNKNOWN is the time limit striking before
\* any solution or proof.
SolveOutcomes(m) ==
    IF ~ValidModel(m) THEN {[status |-> "MODEL_INVALID", value |-> <<>>]} ELSE
    LET sols == Solutions(m)
        best == IF m.minimize = 0 \/ sols = {} THEN 0
                ELSE Min({v[m.minimize] : v \in sols})
    IN  {[status |-> "OPTIMAL", value |-> v] :
            v \in {w \in sols : m.minimize = 0 \/ w[m.minimize] = best}}
        \cup (IF m.minimize # 0
              THEN {[status |-> "FEASIBLE", value |-> v] : v \in sols} ELSE {})
        \cup (IF sols = {} THEN {[status |-> "INFEASIBLE", value |-> <<>>]} ELSE {})
        \cup {[status |-> "UNKNOWN", value |-> <<>>]}

-----------------------------------------------------------------------------
(* _decode_solution and solve                                              *)

StatusMap(status) ==
    CASE status = "OPTIMAL"       -> "optimal"
      [] status = "FEASIBLE"      -> "feasible"
      [] status = "INFEASIBLE"    -> "infeasible"
      [] status = "MODEL_INVALID" -> "error"
      [] OTHER                    -> "unknown"

Assignment(entity_id, attribute, value) ==
    [entity_id |-> entity_id, attribute |-> attribute, value |-> value]

\* Value(var): the value of a variable in the solution v; a variable that
\* is not one of the solved model has no value there.
Value(v, x) == IF x \in DOMAIN v THEN v[x] ELSE Missing

DecodeEntity(t, v, id) ==
    (IF t[<<id, "start">>] # Missing /\ t[<<id, "end">>] # Missing
     THEN <<Assignment(id, "start_time", Value(v, t[<<id, "start">>])),
            Assignment(id, "end_time", Value(v, t[<<id, "end">>]))>>
     ELSE <<>>)
    \o (IF t[<<id, "selected">>] # Missing
        THEN <<Assignment(id, "selected", Value(v, t[<<id, "selected">>]))>>
        ELSE <<>>)

RECURSIVE DecodeAll(_, _, _, _)
DecodeAll(t, v, entities, k) ==
    IF k > Len(entities) THEN <<>>
    ELSE DecodeEntity(t, v, entities[k].id) \o DecodeAll(t, v, entities, k + 1)

\* What a piece of code ends with: a returned value or a raised exception.
Returned(v) == [raised |-> NoExc, value |-> v]
Raised(e) == [raised |-> e, value |-> NoSolution]

\* Solution(...): __post_init__ refuses optimal or feasible without
\* assignments.
Solution(status, assignments, proof) ==
    IF status \in {"optimal", "feasible"} /\ assignments = <<>>
    THEN Raised(Exc("ValueError", "Status requires non-empty assignments"))
    ELSE Returned([status |-> status, assignments |-> assignments, proof |-> proof])

\* The Solution built by solve's except clause; proof holds str(e).
ErrorSolution(e) == [status |-> "error", assignments |-> <<>>, proof |-> e.msg]

\* _decode_solution: assignments with optimal or feasible, none otherwise
\* (proof is then "Problem is <status>").
decode_solution(t, outcome, entities) ==
    LET solution_status == StatusMap(outcome.status) IN
    IF solution_status \in {"optimal", "feasible"}
    THEN Solution(solution_status, DecodeAll(t, outcome.value, entities, 1), "")
    ELSE Solution(solution_status, <<>>, solution_status)

\* Variant: the except clause names ValueError only.
SolveCaught_valueerror == "ValueError"

\* The class named by the except clause of solve.
SolveCaught == "Exception"

\* The try block of solve on the encoding st: what it ends with, and the
\* status the backend answered ("none" when Solve was never called).
SolveTry(st, entities) ==
    IF st.raised # NoExc
    THEN {[raised |-> st.raised, value |-> NoSolution, backend |-> "none"]}
    ELSE {LET r == decode_solution(st.variables, o, entities)
          IN  [raised |-> r.raised, value |-> r.value, backend |-> o.status] :
            o \in SolveOutcomes(st.model)}

\* try ... except: a caught exception becomes a Solution of status error.
SolveExcept(r) ==
    IF r.raised # NoExc /\ IsInstance(r.raised.class, SolveCaught)
    THEN [raised |-> NoExc, value |-> ErrorSolution(r.raised), backend |-> r.backend]
    ELSE r

\* solve(entities, constraints, objective): a fresh model and table, the
\* encoding, the backend, the decoding.
SolveCall(st, entities, constraints, objective) ==
    /\ solver' = After(st)
    /\ \E r \in {SolveExcept(x) : x \in SolveTry(st, entities)} :
          call' = [NoSolverCall EXCEPT !.op = "solve", !.entities = entities,
                      !.constraints = constraints, !.objective = objective,
                      !.solution = r.value, !.raised = r.raised,
                      !.backend = r.backend]
    /\ UNCHANGED <<ledgerVars, graphVars, stepVars>>

Solve(entities, constraints, objective) ==
    /\ ~solver.used
    /\ SolveCall(Encode(entities, constraints, objective),
                 entities, constraints, objective)

-----------------------------------------------------------------------------
(* find_unsat_core                                                         *)

\* The model and table find_unsat_core builds for a constraint list on the
\* instance s; no objective is encoded.
EncodeProblemFrom(s, entities, constraints) ==
    encode_constraints(encode_variables(FreshEncoding(s), entities, 1), constraints, 1)

EncodeProblem(entities, constraints) == EncodeProblemFrom(solver, entities, constraints)

\* The statuses CpSolver.Solve may answer for a model.
SolveStatuses(m) == {o.status : o \in SolveOutcomes(m)}

FeasibleMsg == "Problem is feasible, no unsat core exists"

\* [c for j, c in enumerate(constraints) if j != i]
Without(constraints, i) ==
    [j \in 1..(Len(constraints) - 1) |->
        IF j < i THEN constraints[j] ELSE constraints[j + 1]]

\* The elimination loop from constraint i on.  acc holds the positions
\* found so far, the number of re-solves, the last encoding and the
\* exception that ended the loop; the result is every acc the backend's
\* answers allow.
RECURSIVE UnsatLoop(_, _, _, _)
UnsatLoop(entities, constraints, i, acc) ==
    IF i > Len(constraints) THEN {acc}
    ELSE LET st == EncodeProblemFrom(acc.st, entities, Without(constraints, i)) IN
         IF st.raised # NoExc
         THEN {[acc EXCEPT !.st = st, !.raised = st.raised]}
         ELSE UNION {UnsatLoop(entities, constraints, i + 1,
                        [acc EXCEPT !.st = st,
                                    !.resolves = @ + 1,
                                    !.conflicting =
                                       IF test_status \in {"OPTIMAL", "FEASIBLE"}
                                       THEN Append(@, i) ELSE @]) :
                       test_status \in SolveStatuses(st.model)}

\* UnsatCore(...): a constraint is named by its position in the list, its
\* relaxation by its type.
UnsatCore(constraints, acc) ==
    IF acc.conflicting # <<>>
    THEN [kind |-> "UnsatCore",
          conflicting_constraints |-> acc.conflicting,
          suggested_relaxations |->
             [k \in DOMAIN acc.conflicting |-> constraints[acc.conflicting[k]].type],
          resolves |-> acc.resolves]
    ELSE [kind |-> "UnsatCore",
          conflicting_constraints |-> [k \in DOMAIN constraints |-> k],
          suggested_relaxations |-> <<"Use Z3Solver for detailed conflict analysis">>,
          resolves |-> acc.resolves]

\* if status != cp_model.INFEASIBLE: raise ValueError(...)
InitialCheckFeasible(status) == status # "INFEASIBLE"

\* find_unsat_core(entities, constraints) on the instance s: every result
\* the backend's answers allow, as [st, raised, out].
UnsatCoreResults(s, entities, constraints) ==
    LET st0 == EncodeProblemFrom(s, entities, constraints) IN
    IF st0.raised # NoExc
    THEN {[st |-> st0, raised |-> st0.raised, out |-> NoOut]}
    ELSE UNION {
           IF InitialCheckFeasible(status)
           THEN {[st |-> st0, raised |-> Exc("ValueError", FeasibleMsg), out |-> NoOut]}
           ELSE {[st |-> acc.st, raised |-> acc.raised,
                  out |-> IF acc.raised # NoExc THEN NoOut
                          ELSE UnsatCore(constraints, acc)] :
                   acc \in UnsatLoop(entities, constraints, 1,
                              [conflicting |-> <<>>, resolves |-> 0,
                               st |-> st0, raised |-> NoExc])} :
           status \in SolveStatuses(st0.model)}

FindUnsatCoreCall(entities, constraints) ==
    /\ \E r \in UnsatCoreResults(solver, entities, constraints) :
          /\ solver' = After(r.st)
          /\ call' = [NoSolverCall EXCEPT !.op = "find_unsat_core",
                         !.entities = entities, !.constraints = constraints,
                         !.raised = r.raised, !.out = r.out]
    /\ UNCHANGED <<ledgerVars, graphVars, stepVars>>

FindUnsatCore(entities, constraints) ==
    ~solver.used /\ FindUnsatCoreCall(entities, constraints)

-----------------------------------------------------------------------------
(* find_alternatives                                                       *)

\* The problems find_alternatives is called with: the first tasks, a task
\* of duration Horizon having one possible start only.
AltTaskSeq == <<"a", "b">>

AltDurChoices(id) ==
    IF id = "a" THEN {DurAbsent, DurInt(Horizon)} ELSE {DurInt(2), DurInt(Horizon)}

AltEntityLists ==
    UNION {{es \in [1..n -> UNION {{[id |-> AltTaskSeq[i], duration |-> d] :
                                       d \in AltDurChoices(AltTaskSeq[i])} :
                                    i \in 1..Len(AltTaskSeq)}] :
              \A i \in 1..n : es[i].id = AltTaskSeq[i]} :
             n \in 0..Len(AltTaskSeq)}

AltConstraintLists == UNION {[1..n -> ConstraintChoices] : n \in 0..MaxAltConstraints}

\* SolutionCollector.on_solution_callback, one entity: start and end only.
CollectEntity(t, v, id) ==
    IF t[<<id, "start">>] # Missing /\ t[<<id, "end">>] # Missing
    THEN <<Assignment(id, "start_time", Value(v, t[<<id, "start">>])),
           Assignment(id, "end_time", Value(v, t[<<id, "end">>]))>>
    ELSE <<>>

RECURSIVE CollectAll(_, _, _, _)
CollectAll(t, v, entities, k) ==
    IF k > Len(entities) THEN <<>>
    ELSE CollectEntity(t, v, entities[k].id) \o CollectAll(t, v, entities, k + 1)

\* What the callback extracts from each solution of the model, with the
\* objective value of the solution (0 without objective).
Collectable(st, entities) ==
    {[assignments |-> CollectAll(st.variables, v, entities, 1),
      objective |-> IF st.model.minimize = 0 THEN 0 ELSE v[st.model.minimize],
      value |-> v] : v \in Solutions(st.model)}

\* The solutions the backend hands to the callback, in order: distinct
\* solutions of the model when it enumerates, solutions of strictly
\* smaller objective when it minimises.  C is what can be collected.
SolutionStreams(C, minimising, k) ==
    {s \in [1..k -> C] :
        \A i \in 1..k, j \in 1..k : i < j =>
           IF minimising THEN s[i].objective > s[j].objective
           ELSE s[i].value # s[j].value}

\* Whether the backend has a further solution for the callback after the
\* stream s.
HasFurther(C, minimising, s) ==
    \E c \in C :
       IF minimising THEN s = <<>> \/ c.objective < s[Len(s)].objective
       ELSE \A i \in DOMAIN s : s[i].value # c.value

\* Variant: StopSearch is called as soon as the last solution is recorded.
CollectorRuns_stopatlast(st, entities, max_solutions) ==
    LET C == Collectable(st, entities)
        minimising == st.model.minimize # 0
    IN  UNION {
          {[collected |-> s, callbacks |-> Len(s),
            status |-> IF HasFurther(C, minimising, s)
                       THEN (IF s = <<>> THEN "UNKNOWN" ELSE "FEASIBLE")
                       ELSE (IF s = <<>> THEN "INFEASIBLE" ELSE "OPTIMAL")] :
            s \in SolutionStreams(C, minimising, k)} : k \in 0..max_solutions}

\* Solve(model, collector): the solutions collected, the number of times
\* the callback ran and the status answered.  The search ends when it is
\* exhausted (OPTIMAL, or INFEASIBLE without any solution), when the time
\* limit strikes (FEASIBLE, or UNKNOWN without any solution), or when the
\* callback, called with max_solutions solutions already collected, calls
\* StopSearch (FEASIBLE).
CollectorRuns(st, entities, max_solutions) ==
    LET C == Collectable(st, entities)
        minimising == st.model.minimize # 0
    IN  UNION {
          UNION {
            (IF HasFurther(C, minimising, s)
             THEN {[collected |-> s, callbacks |-> Len(s),
                    status |-> IF s = <<>> THEN "UNKNOWN" ELSE "FEASIBLE"]}
                  \cup (IF Len(s) = max_solutions
                        THEN {[collected |-> s, callbacks |-> Len(s) + 1,
                               status |-> "FEASIBLE"]}
                        ELSE {})
             ELSE {[collected |-> s, callbacks |-> Len(s),
                    status |-> IF s = <<>> THEN "INFEASIBLE" ELSE "OPTIMAL"],
                   [collected |-> s, callbacks |-> Len(s),
                    status |-> IF s = <<>> THEN "UNKNOWN" ELSE "FEASIBLE"]}) :
            s \in SolutionStreams(C, minimising, k)} : k \in 0..max_solutions}

\* status_map.get(status, SolutionStatus.UNKNOWN) of find_alternatives.
AltStatusMap(status) ==
    CASE status = "OPTIMAL"    -> "optimal"
      [] status = "FEASIBLE"   -> "feasible"
      [] status = "INFEASIBLE" -> "infeasible"
      [] OTHER                 -> "unknown"

\* The first exception of a sequence of construction results, NoExc when
\* none raised.
FirstRaised(rs) ==
    LET bad == {i \in DOMAIN rs : rs[i].raised # NoExc}
    IN  IF bad = {} THEN NoExc ELSE rs[Min(bad)].raised

\* The SolutionSet built from a run of the collector, as [raised, out].
SolutionSet(run) ==
    IF run.collected = <<>>
    THEN [raised |-> NoExc,
          out |-> [kind |-> "SolutionSet",
                   optimal |-> [status |-> "infeasible", assignments |-> <<>>,
                                proof |-> ""],
                   alternatives |-> <<>>, total_feasible |-> 0,
                   callbacks |-> run.callbacks]]
    ELSE LET built == [i \in DOMAIN run.collected |->
                         Solution(IF i = 1 THEN AltStatusMap(run.status) ELSE "feasible",
                                  run.collected[i].assignments, "")]
         IN  IF FirstRaised(built) # NoExc
             THEN [raised |-> FirstRaised(built), out |-> NoOut]
             ELSE [raised |-> NoExc,
                   out |-> [kind |-> "SolutionSet",
                            optimal |-> built[1].value,
                            alternatives |-> [i \in 1..(Len(built) - 1) |->
                                                built[i + 1].value],
                            total_feasible |-> Len(run.collected),
                            callbacks |-> run.callbacks]]

\* What find_alternatives ends with on the encoding st, as [raised, out].
AlternativesResults(st, entities, max_solutions) ==
    IF st.raised # NoExc THEN {[raised |-> st.raised, out |-> NoOut]}
    ELSE {SolutionSet(run) : run \in CollectorRuns(st, entities, max_solutions)}

\* find_alternatives(entities, constraints, objective, max_solutions); no
\* exception is caught.
FindAlternativesCall(entities, constraints, objective, max_solutions) ==
    LET st == Encode(entities, constraints, objective) IN
    /\ solver' = After(st)
    /\ \E r \in AlternativesResults(st, entities, max_solutions) :
          call' = [NoSolverCall EXCEPT !.op = "find_alternatives",
                      !.entities = entities, !.constraints = constraints,
                      !.objective = objective, !.max_solutions = max_solutions,
                      !.raised = r.raised, !.out = r.out]
    /\ UNCHANGED <<ledgerVars, graphVars, stepVars>>

FindAlternatives(entities, constraints, objective, max_solutions) ==
    ~solver.used /\ FindAlternativesCall(entities, constraints, objective, max_solutions)

-----------------------------------------------------------------------------
(* validate_solution                                                       *)

\* Solution.get_assignment: the first assignment of the entity and
\* attribute, NoAssignment (None) when there is none.
NoAssignment == Assignment("-", "-", Missing)

get_assignment(solution, entity_id, attribute) ==
    LET hits == {i \in DOMAIN solution.assignments :
                    /\ solution.assignments[i].entity_id = entity_id
                    /\ solution.assignments[i].attribute = attribute}
    IN  IF hits = {} THEN NoAssignment ELSE solution.assignments[Min(hits)]

\* Variant: equal end and start count as a violation.
PrecedenceViolated_strict(a_end, b_start) == a_end.value >= b_start.value

\* if a_end.value > b_start.value: return False
PrecedenceViolated(a_end, b_start) == a_end.value > b_start.value

\* The loop over the constraints from the k-th on: a returned boolean or
\* the IndexError of constraint.entities[1].
RECURSIVE ValidateLoop(_, _, _)
ValidateLoop(solution, constraints, k) ==
    IF k > Len(constraints) THEN [raised |-> NoExc, value |-> TRUE]
    ELSE LET c == constraints[k] IN
         IF c.type # "precedence" THEN ValidateLoop(solution, constraints, k + 1)
         ELSE IF Len(c.entities) < 2
         THEN [raised |-> Exc("IndexError", "list index out of range"), value |-> FALSE]
         ELSE LET a_end   == get_assignment(solution, c.entities[1], "end_time")
                  b_start == get_assignment(solution, c.entities[2], "start_time")
              IN  IF a_end = NoAssignment \/ b_start = NoAssignment
                  THEN [raised |-> NoExc, value |-> FALSE]
                  ELSE IF PrecedenceViolated(a_end, b_start)
                  THEN [raised |-> NoExc, value |-> FALSE]
                  ELSE ValidateLoop(solution, constraints, k + 1)

validate_solution(solution, constraints) ==
    IF solution.status # "optimal" THEN [raised |-> NoExc, value |-> FALSE]
    ELSE ValidateLoop(solution, constraints, 1)

\* The solutions validate_solution is called with: any status, and for
\* each of two entities any of start_time and end_time, at any time.
ValStatuses == {"optimal", "feasible", "infeasible"}

ValAssignments(x) ==
    {<<>>}
    \cup {<<Assignment(x, "start_time", t)>> : t \in 0..Horizon}
    \cup {<<Assignment(x, "end_time", t)>> : t \in 0..Horizon}
    \cup {<<Assignment(x, "start_time", t), Assignment(x, "end_time", u)>> :
             t \in 0..Horizon, u \in 0..Horizon}

ValSolutions ==
    {r.value : r \in {x \in {Solution(status, pa \o pb, "") :
                                 status \in ValStatuses,
                                 pa \in ValAssignments("a"),
                                 pb \in ValAssignments("b")} : x.raised = NoExc}}

ValConstraintChoices ==
    {Constraint("precedence", <<"a", "b">>), Constraint("precedence", <<"b", "a">>),
     Constraint("precedence", <<"a">>), Constraint("mutex", <<"a", "b">>)}

ValConstraintLists == UNION {[1..n -> ValConstraintChoices] : n \in 0..MaxConstraints}

ValidateSolution(solution, constraints) ==
    /\ ~solver.used
    /\ solver' = [solver EXCEPT !.used = TRUE]
    /\ LET r == validate_solution(solution, constraints) IN
       call' = [NoSolverCall EXCEPT !.op = "validate_solution",
                   !.constraints = constraints, !.solution = solution,
                   !.raised = r.raised,
                   !.out = [kind |-> "bool", value |-> r.value]]
    /\ UNCHANGED <<ledgerVars, graphVars, stepVars>>

\* The threads that call solve, and a thread outside solve.
Threads == {1, 2}

IdleThread ==
    [pc |-> "idle", entities |-> <<>>, constraints |-> <<>>, status |-> "none",
     solution |-> NoSolution, raised |-> NoExc]

\* A CpSolver on which Solve has not been called.
NoResponse == [status |-> "none", value |-> <<>>]

\* ORToolsSolver(): the next call is made on a new instance.
Construct ==
    /\ solver.used
    /\ solver' = NewSolver
    /\ call' = NoSolverCall
    /\ UNCHANGED <<ledgerVars, graphVars, stepVars>>

NextSolver ==
    \/ /\ ~solver.used
       /\ \E es \in EntityLists, cs \in ConstraintLists, ob \in Objectives :
             Solve(es, cs, ob)
    \/ /\ ~solver.used
       /\ \E es \in EntityLists, cs \in ConstraintLists : FindUnsatCore(es, cs)
    \/ /\ ~solver.used
       /\ \E es \in AltEntityLists, cs \in AltConstraintLists, ob \in Objectives,
             n \in 0..MaxSolutions : FindAlternatives(es, cs, ob, n)
    \/ /\ ~solver.used
       /\ \E so \in ValSolutions, cs \in ValConstraintLists : ValidateSolution(so, cs)
    \/ Construct

-----------------------------------------------------------------------------
(* ProvenanceLedger.  A confidence is a number of ten-thousandths; a       *)
(* Provenance keeps its source, the number of its evidence items, its      *)
(* confidence, whether last_validated is set, and its conflicts list.      *)

LedgerIds == {"e1", "e2"}
Sources == {"measurement", "community"}
RecordKeys == LedgerIds \X (1..MaxRecords)

\* _records and _validation_history are defaultdict(list): record_keys and
\* history_keys are their key sets, and the list of a missing key reads as
\* empty.  _conflicts is a plain dict: <<>> stands for a missing key.
NewLedger ==
    [records      |-> [e \in LedgerIds |-> <<>>],
     record_keys  |-> {},
     conflicts    |-> [k \in RecordKeys |-> <<>>],
     history      |-> [e \in LedgerIds |-> <<>>],
     history_keys |-> {}]

\* self._records[entity_id]: reading a missing key inserts it.
RecordsOf(L, entity_id) == [L EXCEPT !.record_keys = @ \cup {entity_id}]

\* self._validation_history[entity_id]
HistoryOf(L, entity_id) == [L EXCEPT !.history_keys = @ \cup {entity_id}]

Provenance(source, evidence, confidence, validated, conflicts) ==
    [source |-> source, evidence |-> evidence, confidence |-> confidence,
     validated |-> validated, conflicts |-> conflicts]

NoProvenance == Provenance("none", 0, 0, FALSE, <<>>)

\* history[-10:]
Recent(history) ==
    IF Len(history) <= 10 THEN history
    ELSE SubSeq(history, Len(history) - 9, Len(history))

\* _calculate_g_score; every evidence item contributes 0.1.
calculate_g_score(L, base_confidence, evidence, entity_id) ==
    LET score  == base_confidence + 1000 * evidence
        recent == Recent(L.history[entity_id])
        passed == Cardinality({i \in DOMAIN recent : recent[i]})
        failed == Len(recent) - passed
        adjusted == IF passed > failed THEN (score * 105) \div 100
                    ELSE IF failed > passed THEN (score * 95) \div 100
                    ELSE score
    IN  IF adjusted < 10000 THEN adjusted ELSE 10000

\* _detect_conflicts: the loop over records[:new_index].
RECURSIVE DetectLoop(_, _, _, _, _)
DetectLoop(L, entity_id, new_index, new_record, i) ==
    IF i >= new_index THEN L
    ELSE LET existing == L.records[entity_id][i]
             diff     == existing.confidence - new_record.confidence
             has_conflict ==
                /\ existing.source # new_record.source
                /\ (IF diff < 0 THEN -diff ELSE diff) > 3000
         IN  IF ~has_conflict
             THEN DetectLoop(L, entity_id, new_index, new_record, i + 1)
             ELSE DetectLoop(
                    [L EXCEPT
                       !.conflicts[<<entity_id, new_index>>] = Append(@, <<entity_id, i>>),
                       !.conflicts[<<entity_id, i>>] = Append(@, <<entity_id, new_index>>),
                       !.records[entity_id][i].conflicts = Append(@, entity_id),
                       !.records[entity_id][new_index] =
                           [new_record EXCEPT !.conflicts = Append(@, entity_id)]],
                    entity_id, new_index, new_record, i + 1)

detect_conflicts(L, entity_id, new_index) ==
    DetectLoop(RecordsOf(L, entity_id), entity_id, new_index,
               L.records[entity_id][new_index], 1)

\* record: [raised, value, ledger]
record(L, entity_id, source, base_confidence, evidence, validation_method) ==
    IF ~(0 <= base_confidence /\ base_confidence <= 10000)
    THEN [raised |-> "ValueError", value |-> NoProvenance, ledger |-> L]
    ELSE LET g_score == calculate_g_score(L, base_confidence, evidence, entity_id)
             provenance == Provenance(source, evidence, g_score,
                                      validation_method # "None", <<>>)
             L1 == RecordsOf(HistoryOf(L, entity_id), entity_id)
             L2 == [L1 EXCEPT !.records[entity_id] = Append(@, provenance)]
         IN  [raised |-> "none", value |-> provenance,
              ledger |-> detect_conflicts(L2, entity_id, Len(L2.records[entity_id]))]

\* validate: the ledger after the call.
validate(L, entity_id, result) ==
    LET L1 == [HistoryOf(L, entity_id) EXCEPT !.history[entity_id] = Append(@, result)]
        L2 == RecordsOf(L1, entity_id)
        records == L2.records[entity_id]
    IN  IF records # <<>>
        THEN [L2 EXCEPT !.records[entity_id][Len(records)].validated = TRUE]
        ELSE L2

get_all(L, entity_id) == L.records[entity_id]

get_latest(L, entity_id) ==
    LET records == L.records[entity_id]
    IN  IF records # <<>> THEN records[Len(records)] ELSE NoProvenance

\* max(records, key=...): the first record of the highest confidence.
get_highest_confidence(L, entity_id) ==
    LET records == L.records[entity_id]
        best == {i \in DOMAIN records :
                    \A j \in DOMAIN records : records[j].confidence <= records[i].confidence}
    IN  IF records = <<>> THEN NoProvenance
        ELSE records[CHOOSE i \in best : \A j \in best : i <= j]

get_by_source(L, entity_id, source) ==
    SelectSeq(L.records[entity_id], LAMBDA p : p.source = source)

has_conflicts(L, entity_id) ==
    \E i \in 1..Len(L.records[entity_id]) : L.conflicts[<<entity_id, i>>] # <<>>

RECURSIVE Pow2(_)
Pow2(n) == IF n = 0 THEN 1 ELSE 2 * Pow2(n - 1)

RECURSIVE SumOver(_, _)
SumOver(f, S) ==
    IF S = {} THEN 0
    ELSE LET x == CHOOSE y \in S : TRUE IN f[x] + SumOver(f, S \ {x})

\* get_aggregate_confidence as the fraction weighted_sum / total_weight,
\* every weight multiplied by 20 * 2^(len(records) - 1) to make it whole.
get_aggregate_confidence(L, entity_id) ==
    LET records == L.records[entity_id]
        weight  == [i \in DOMAIN records |->
                      Pow2(i - 1) * (10 + records[i].evidence)
                         * (IF records[i].validated THEN 3 ELSE 2)]
    IN  IF records = <<>> THEN [num |-> 0, den |-> 1]
        ELSE [num |-> SumOver([i \in DOMAIN records |->
                                  records[i].confidence * weight[i]], DOMAIN records),
              den |-> SumOver(weight, DOMAIN records)]

\* The records of the ledger, by entity and position.
Records(L) == {k \in RecordKeys : k[2] <= Len(L.records[k[1]])}

\* get_statistics; avg_confidence is in thousandths, rounded.
get_statistics(L) ==
    LET all   == Records(L)
        conf  == [k \in all |-> L.records[k[1]][k[2]].confidence]
        total == SumOver(conf, all)
        n     == Cardinality(all)
    IN  [total_entities  |-> Cardinality(L.record_keys),
         total_records   |-> n,
         total_conflicts |-> Cardinality({k \in RecordKeys : L.conflicts[k] # <<>>}),
         avg_confidence  |-> IF n = 0 THEN 0 ELSE (2 * total + 10 * n) \div (20 * n),
         records_by_source |->
            [s \in Sources |->
               Cardinality({k \in all : L.records[k[1]][k[2]].source = s})],
         high_confidence_records |-> Cardinality({k \in all : conf[k] >= 8000}),
         validated_records |->
            Cardinality({k \in all : L.records[k[1]][k[2]].validated})]

NoProbe == [op |-> "none", entity |-> "-", raised |-> "none"]

-----------------------------------------------------------------------------
(* The session: calls on the current graph                                 *)

\* The first id not yet a node (a fresh uuid4()), as a set of at most one.
FreshIds(G) ==
    {IdSeq[i] : i \in {j \in 1..Len(IdSeq) :
                        /\ ~HasNode(G, IdSeq[j])
                        /\ \A k \in 1..(j-1) : HasNode(G, IdSeq[k])}}

NoCall == [op |-> "none", a |-> "-", b |-> "-", d |-> -1, out |-> "ok"]

Call(op, a, b, d, out) == [op |-> op, a |-> a, b |-> b, d |-> d, out |-> out]

\* One DependencyGraph() exists, held by writer and reader alike.
Refs == 1..3
Free == [nodes |-> <<"free">>]

Init ==
    /\ graph = EmptyGraph
    /\ last = NoCall
    /\ heap = [r \in Refs |-> IF r = 1 THEN EmptyGraph ELSE Free]
    /\ writer = [pc |-> "idle", self |-> 1, new |-> 0, op |-> "none",
                 a |-> "-", b |-> "-", out |-> "ok"]
    /\ reader = [ref |-> 1, nodes |-> {}, edges |-> {}]
    /\ solver = NewSolver
    /\ call = NoSolverCall
    /\ threads = [t \in Threads |-> IdleThread]
    /\ cpsolver = NoResponse
    /\ ledger = NewLedger
    /\ probe = NoProbe

\* A DependencyGraph is an immutable value and what a call returns depends
\* on that value alone, never on the calls made before.  Calls are therefore
\* explored on every graph value once: in the state in which the value has
\* just been constructed.  Every reachable graph value has such a state.
JustBuilt == last.op \in {"none", "add_entity", "add_relation"} /\ last.out = "ok"

AddEntity(e) ==
    /\ JustBuilt
    /\ UNCHANGED <<ledgerVars, stepVars, solverVars>>
    /\ graph' = IF AddEntityOutcome(graph, e) = "ok"
                THEN AddEntityGraph(graph, e) ELSE graph
    /\ last' = Call("add_entity", e, "-", -1, AddEntityOutcome(graph, e))

\* Building Relation(from_entity=f, to_entity=t) and, when that succeeds,
\* passing it to add_relation.
AddRelation(f, t) ==
    /\ JustBuilt
    /\ UNCHANGED <<ledgerVars, stepVars, solverVars>>
    /\ Cardinality(Edges(graph)) < MaxEdges
    /\ IF RelationRejected(f, t)
       THEN /\ graph' = graph
            /\ last' = Call("Relation", f, t, -1, "ValueError")
       ELSE /\ graph' = IF AddRelationOutcome(graph, f, t) = "ok"
                        THEN AddRelationGraph(graph, f, t) ELSE graph
            /\ last' = Call("add_relation", f, t, -1, AddRelationOutcome(graph, f, t))

Query(op, a, d, out) ==
    /\ JustBuilt
    /\ UNCHANGED <<ledgerVars, stepVars, solverVars>>
    /\ graph' = graph
    /\ last' = Call(op, a, "-", d, out)

TopologicalSort == Query("topological_sort", "-", -1, topological_sort(graph))

FindSCC ==
    Query("find_strongly_connected_components", "-", -1,
          find_strongly_connected_components(graph))

FindCircular ==
    Query("find_circular_dependencies", "-", -1, find_circular_dependencies(graph))

GetTransitiveDependencies(x, d) ==
    Query("get_transitive_dependencies", x, d, get_transitive_dependencies(graph, x, d))

GetTransitiveDependents(x, d) ==
    Query("get_transitive_dependents", x, d, get_transitive_dependents(graph, x, d))

FindCriticalPath == Query("find_critical_path", "-", -1, find_critical_path(graph))

FindPath(x, y) ==
    /\ JustBuilt
    /\ UNCHANGED <<ledgerVars, stepVars, solverVars>>
    /\ graph' = graph
    /\ last' = Call("find_path", x, y, -1, find_path(graph, x, y))

FindAllPaths(x, y, max_paths) ==
    /\ JustBuilt
    /\ UNCHANGED <<ledgerVars, stepVars, solverVars>>
    /\ graph' = graph
    /\ last' = Call("find_all_paths", x, y, max_paths,
                    find_all_paths(graph, x, y, max_paths))

IsReachable(x, y) ==
    /\ JustBuilt
    /\ UNCHANGED <<ledgerVars, stepVars, solverVars>>
    /\ graph' = graph
    /\ last' = Call("is_reachable", x, y, -1, is_reachable(graph, x, y))

GetDependencies(x) == Query("get_dependencies", x, -1, get_dependencies(graph, x))

GetDependents(x) == Query("get_dependents", x, -1, get_dependents(graph, x))

CalculateImpactMetrics(e) ==
    Query("calculate_impact_metrics", e, -1, calculate_impact_metrics(graph, e))

AnalyzeChangeImpact(e) ==
    Query("analyze_change_impact", e, -1, analyze_change_impact(graph, e))

Depths == {NoneDepth} \cup 0..MaxDepth

Next ==
    \/ \E e \in NodeSet(graph) \cup FreshIds(graph) : AddEntity(e)
    \/ \E f \in Ids, t \in Ids : AddRelation(f, t)
    \/ TopologicalSort
    \/ FindSCC
    \/ FindCircular
    \/ \E x \in Ids, d \in Depths : GetTransitiveDependencies(x, d)
    \/ \E x \in Ids, d \in Depths : GetTransitiveDependents(x, d)
    \/ FindCriticalPath
    \/ \E x \in Ids, y \in Ids : FindPath(x, y)
    \/ \E x \in Ids, y \in Ids, n \in 0..MaxPaths : FindAllPaths(x, y, n)
    \/ \E x \in Ids, y \in Ids : IsReachable(x, y)
    \/ \E x \in Ids : GetDependencies(x)
    \/ \E x \in Ids : GetDependents(x)
    \/ \E e \in Ids : CalculateImpactMetrics(e)
    \/ \E e \in Ids : AnalyzeChangeImpact(e)

Spec == Init /\ [][Next]_vars

SpecSolver == Init /\ [][NextSolver]_vars

\* Two threads call solve on one instance, statement by statement.  The
\* statements work on self._model, self._variables and self._solver as
\* they are when the statement runs.
ThreadProblems ==
    {[entities |-> <<[id |-> "a", duration |-> DurInt(Horizon)]>>,
      constraints |-> <<>>],
     [entities |-> <<[id |-> "b", duration |-> DurInt(Horizon)]>>,
      constraints |-> <<Constraint("choice", <<"b", "c">>)>>],
     [entities |-> <<[id |-> "a", duration |-> DurInt(Horizon)],
                     [id |-> "b", duration |-> DurInt(0)]>>,
      constraints |-> <<Constraint("precedence", <<"a", "b">>)>>]}

Goto(t, pc) == [threads EXCEPT ![t].pc = pc]

\* An exception in the try block: the except clause builds the Solution.
Fail(t, e) ==
    IF IsInstance(e.class, SolveCaught)
    THEN [threads EXCEPT ![t].pc = "done", ![t].solution = ErrorSolution(e)]
    ELSE [threads EXCEPT ![t].pc = "done", ![t].raised = e]

\* solve(entities, constraints) is entered.
ThreadCall(t, problem) ==
    /\ threads[t].pc = "idle"
    /\ threads' = [threads EXCEPT ![t].pc = "model",
                                  ![t].entities = problem.entities,
                                  ![t].constraints = problem.constraints]
    /\ UNCHANGED <<ledgerVars, graphVars, heap, writer, reader, solverVars, cpsolver>>

\* self._model = cp_model.CpModel()
ThreadNewModel(t) ==
    /\ threads[t].pc = "model"
    /\ solver' = [solver EXCEPT !.model = EmptyModel]
    /\ threads' = Goto(t, "table")
    /\ UNCHANGED <<ledgerVars, graphVars, heap, writer, reader, call, cpsolver>>

\* self._variables = {}
ThreadNewTable(t) ==
    /\ threads[t].pc = "table"
    /\ solver' = [solver EXCEPT !.variables = EmptyTable]
    /\ threads' = Goto(t, "variables")
    /\ UNCHANGED <<ledgerVars, graphVars, heap, writer, reader, call, cpsolver>>

\* self._encode_variables(entities)
ThreadEncodeVariables(t) ==
    /\ threads[t].pc = "variables"
    /\ LET st == encode_variables(Enc(solver.model, solver.variables, NoExc),
                                  threads[t].entities, 1) IN
       /\ solver' = [solver EXCEPT !.model = st.model, !.variables = st.variables]
       /\ threads' = IF st.raised # NoExc THEN Fail(t, st.raised)
                     ELSE Goto(t, "constraints")
    /\ UNCHANGED <<ledgerVars, graphVars, heap, writer, reader, call, cpsolver>>

\* self._encode_constraints(constraints); no objective was given.
ThreadEncodeConstraints(t) ==
    /\ threads[t].pc = "constraints"
    /\ LET st == encode_constraints(Enc(solver.model, solver.variables, NoExc),
                                    threads[t].constraints, 1) IN
       /\ solver' = [solver EXCEPT !.model = st.model, !.variables = st.variables]
       /\ threads' = IF st.raised # NoExc THEN Fail(t, st.raised)
                     ELSE Goto(t, "solver")
    /\ UNCHANGED <<ledgerVars, graphVars, heap, writer, reader, call, cpsolver>>

\* self._solver = cp_model.CpSolver()
ThreadNewSolver(t) ==
    /\ threads[t].pc = "solver"
    /\ cpsolver' = NoResponse
    /\ threads' = Goto(t, "solve")
    /\ UNCHANGED <<ledgerVars, graphVars, heap, writer, reader, solverVars>>

\* status = self._solver.Solve(self._model)
ThreadSolve(t) ==
    /\ threads[t].pc = "solve"
    /\ \E o \in SolveOutcomes(solver.model) :
          /\ cpsolver' = o
          /\ threads' = [threads EXCEPT ![t].pc = "decode", ![t].status = o.status]
    /\ UNCHANGED <<ledgerVars, graphVars, heap, writer, reader, solverVars>>

\* return self._decode_solution(status, entities, solve_time); Value() of
\* a CpSolver that holds no solution raises.
ThreadDecode(t) ==
    /\ threads[t].pc = "decode"
    /\ LET r == IF /\ StatusMap(threads[t].status) \in {"optimal", "feasible"}
                   /\ cpsolver.status \notin {"OPTIMAL", "FEASIBLE"}
                   /\ \E k \in DOMAIN threads[t].entities, sfx \in {"start", "selected"} :
                         solver.variables[<<threads[t].entities[k].id, sfx>>] # Missing
                THEN Raised(Exc("RuntimeError", "Solve() has not been called."))
                ELSE decode_solution(solver.variables,
                                     [status |-> threads[t].status, value |-> cpsolver.value],
                                     threads[t].entities)
       IN  threads' = IF r.raised # NoExc THEN Fail(t, r.raised)
                      ELSE [threads EXCEPT ![t].pc = "done", ![t].solution = r.value]
    /\ UNCHANGED <<ledgerVars, graphVars, heap, writer, reader, solverVars, cpsolver>>

NextThreads ==
    \/ \E t \in Threads, problem \in ThreadProblems : ThreadCall(t, problem)
    \/ \E t \in Threads : ThreadNewModel(t)
    \/ \E t \in Threads : ThreadNewTable(t)
    \/ \E t \in Threads : ThreadEncodeVariables(t)
    \/ \E t \in Threads : ThreadEncodeConstraints(t)
    \/ \E t \in Threads : ThreadNewSolver(t)
    \/ \E t \in Threads : ThreadSolve(t)
    \/ \E t \in Threads : ThreadDecode(t)

SpecThreads == Init /\ [][NextThreads]_vars

\* One instance used for call after call.  The caller takes the result
\* (Return) before it makes the next call; the instance keeps the model and
\* the table of the call before.
ReuseEntityLists ==
    {es \in AltEntityLists : \A k \in DOMAIN es : es[k].id = "a" => es[k].duration = DurInt(Horizon)}

ReuseConstraintLists ==
    {<<>>,
     <<Constraint("precedence", <<"a", "b">>)>>,
     <<Constraint("choice", <<"a", "b">>)>>,
     <<Constraint("deadline", <<"a">>)>>,
     <<Constraint("choice", <<"a", "b">>), Constraint("precedence", <<"a", "b">>)>>}

Return ==
    /\ call # NoSolverCall
    /\ call' = NoSolverCall
    /\ UNCHANGED <<ledgerVars, solver, graphVars, stepVars>>

NextReuse ==
    \/ /\ call = NoSolverCall
       /\ \E es \in ReuseEntityLists, cs \in ReuseConstraintLists, ob \in Objectives :
             SolveCall(Encode(es, cs, ob), es, cs, ob)
    \/ /\ call = NoSolverCall
       /\ \E es \in ReuseEntityLists, cs \in ReuseConstraintLists :
             FindUnsatCoreCall(es, cs)
    \/ /\ call = NoSolverCall
       /\ \E es \in ReuseEntityLists, cs \in ReuseConstraintLists, ob \in Objectives,
             n \in 0..MaxSolutions : FindAlternativesCall(es, cs, ob, n)
    \/ Return

SpecReuse == Init /\ [][NextReuse]_vars

-----------------------------------------------------------------------------
(* Calls on one ProvenanceLedger                                           *)

BaseConfidences == {2000, 9000, 11000}

LedgerCall(op, entity_id, raised, out, L) ==
    /\ ledger' = L
    /\ probe' = [op |-> op, entity |-> entity_id, raised |-> raised, out |-> out,
                 before |-> get_statistics(ledger), after |-> get_statistics(L)]
    /\ UNCHANGED <<graphVars, stepVars, solverVars>>

Record(e, source, base_confidence, validation_method) ==
    /\ Cardinality(Records(ledger)) < MaxRecords
    /\ LET r == record(ledger, e, source, base_confidence, 0, validation_method)
       IN  LedgerCall("record", e, r.raised, r.value, r.ledger)

Validate(e, result) ==
    /\ SumOver([x \in LedgerIds |-> Len(ledger.history[x])], LedgerIds) < MaxValidations
    /\ LedgerCall("validate", e, "none", "None", validate(ledger, e, result))

GetAll(e) ==
    LedgerCall("get_all", e, "none", get_all(ledger, e), RecordsOf(ledger, e))

GetLatest(e) ==
    LedgerCall("get_latest", e, "none", get_latest(ledger, e), RecordsOf(ledger, e))

GetHighestConfidence(e) ==
    LedgerCall("get_highest_confidence", e, "none",
               get_highest_confidence(ledger, e), RecordsOf(ledger, e))

GetBySource(e, source) ==
    LedgerCall("get_by_source", e, "none", get_by_source(ledger, e, source),
               RecordsOf(ledger, e))

HasConflicts(e) ==
    LedgerCall("has_conflicts", e, "none", has_conflicts(ledger, e),
               RecordsOf(ledger, e))

GetAggregateConfidence(e) ==
    LedgerCall("get_aggregate_confidence", e, "none",
               get_aggregate_confidence(ledger, e), RecordsOf(ledger, e))

GetStatistics ==
    LedgerCall("get_statistics", "-", "none", get_statistics(ledger), ledger)

NextLedger ==
    \/ \E e \in LedgerIds, s \in Sources, b \in BaseConfidences,
          m \in {"None", "test"} : Record(e, s, b, m)
    \/ \E e \in LedgerIds, r \in BOOLEAN : Validate(e, r)
    \/ \E e \in LedgerIds : GetAll(e)
    \/ \E e \in LedgerIds : GetLatest(e)
    \/ \E e \in LedgerIds : GetHighestConfidence(e)
    \/ \E e \in LedgerIds, s \in Sources : GetBySource(e, s)
    \/ \E e \in LedgerIds : HasConflicts(e)
    \/ \E e \in LedgerIds : GetAggregateConfidence(e)
    \/ GetStatistics

SpecLedger == Init /\ [][NextLedger]_vars

-----------------------------------------------------------------------------
(* add_entity and add_relation statement by statement, with a second       *)
(* thread that holds a DependencyGraph and reads it at any moment          *)

\* Variant: no copy is taken, new_graph is self._graph itself.
NewGraphRef_alias(h, self) == self

\* The object `self._graph.copy()` returns: a new one, the lowest free cell.
NewGraphRef(h, self) == Min({r \in Refs : h[r] = Free})

\* Objects no thread refers to any more are collected.
Collect(h, live) == [r \in Refs |-> IF r \in live THEN h[r] ELSE Free]

\* The guards, then `new_graph = self._graph.copy()`.
WriterCopy(op, a, b) ==
    /\ writer.pc = "idle"
    /\ Len(heap[writer.self].nodes) + Cardinality(Edges(heap[writer.self])) < MaxAdds
    /\ LET G   == heap[writer.self]
           out == IF op = "add_entity" THEN AddEntityOutcome(G, a)
                  ELSE AddRelationOutcome(G, a, b)
           new == NewGraphRef(heap, writer.self)
       IN  IF out = "ok"
           THEN /\ heap' = [heap EXCEPT ![new] = nx_copy(G)]
                /\ writer' = [writer EXCEPT !.pc = "copied", !.new = new,
                                !.op = op, !.a = a, !.b = b, !.out = out]
           ELSE /\ heap' = heap
                /\ writer' = [writer EXCEPT !.op = op, !.a = a, !.b = b, !.out = out]
    /\ UNCHANGED <<ledgerVars, reader, graphVars, solverVars, threadVars>>

\* `new_graph.add_node(...)` or `new_graph.add_edge(...)`.
WriterMutate ==
    /\ writer.pc = "copied"
    /\ heap' = [heap EXCEPT ![writer.new] =
                  IF writer.op = "add_entity" THEN nx_add_node(@, writer.a)
                  ELSE nx_add_edge(@, writer.a, writer.b)]
    /\ writer' = [writer EXCEPT !.pc = "mutated"]
    /\ UNCHANGED <<ledgerVars, reader, graphVars, solverVars, threadVars>>

\* `return DependencyGraph(new_graph)`; the caller keeps the new graph in
\* place of the one it called the method on.
WriterReturn ==
    /\ writer.pc = "mutated"
    /\ writer' = [writer EXCEPT !.pc = "idle", !.self = writer.new, !.new = 0]
    /\ heap' = Collect(heap, {writer.new, reader.ref})
    /\ UNCHANGED <<ledgerVars, reader, graphVars, solverVars, threadVars>>

\* The reader takes the graph the writer currently holds and looks at it.
ReaderSnapshot ==
    /\ reader' = [ref |-> writer.self,
                  nodes |-> NodeSet(heap[writer.self]),
                  edges |-> Edges(heap[writer.self])]
    /\ heap' = Collect(heap, {writer.self, writer.new} \cap Refs)
    /\ UNCHANGED <<ledgerVars, writer, graphVars, solverVars, threadVars>>

NextSteps ==
    \/ \E e \in NodeSet(heap[writer.self]) \cup FreshIds(heap[writer.self]) :
          WriterCopy("add_entity", e, "-")
    \/ \E f \in Ids, t \in Ids : ~RelationRejected(f, t) /\ WriterCopy("add_relation", f, t)
    \/ WriterMutate
    \/ WriterReturn
    \/ ReaderSnapshot

SpecSteps == Init /\ [][NextSteps]_vars

-----------------------------------------------------------------------------
(* Reachability by definition, for stating the properties                  *)

RECURSIVE Warshall(_, _)
Warshall(R, S) ==
    IF S = {} THEN R
    ELSE LET k  == CHOOSE x \in S : TRUE
             R1 == Warshall(R, S \ {k})
         IN  R1 \cup {p \in Ids \X Ids : <<p[1], k>> \in R1 /\ <<k, p[2]>> \in R1}

\* The pairs joined by a path of one or more edges.
PathPairs(G) == Warshall(Edges(G), Ids)

Acyclic(G) == \A v \in Ids : <<v, v>> \notin PathPairs(G)

MutuallyReachable(G, u, v) ==
    u = v \/ (<<u, v>> \in PathPairs(G) /\ <<v, u>> \in PathPairs(G))

\* The nodes at most d hops from x along E, x included.
RECURSIVE Within(_, _, _)
Within(E, x, d) ==
    IF d = 0 THEN {x}
    ELSE LET W == Within(E, x, d - 1)
         IN  W \cup {p[2] : p \in {q \in E : q[1] \in W}}

Inverse(E) == {<<p[2], p[1]>> : p \in E}

Position(order, v) == CHOOSE i \in 1..Len(order) : order[i] = v

-----------------------------------------------------------------------------
\* C1: in every graph built from the empty graph by add_entity and
\* add_relation calls, accepted or rejected, both endpoints of every edge are
\* nodes of the graph, there is at most one edge per ordered pair, and no
\* edge joins an entity to itself.
C1_EdgesWellFormed ==
    /\ \A u \in Ids, v \in Ids :
          HasEdge(graph, u, v) => HasNode(graph, u) /\ HasNode(graph, v) /\ u # v
    /\ \A u \in Ids : \A i \in DOMAIN graph.succ[u], j \in DOMAIN graph.succ[u] :
          graph.succ[u][i] = graph.succ[u][j] => i = j
    /\ \A u \in Ids, v \in Ids :
          (u \in Range(graph.pred[v])) <=> (v \in Range(graph.succ[u]))

C1_Witness ==
    /\ last.op = "Relation" /\ last.out = "ValueError"
    /\ Cardinality(Edges(graph)) >= 2

\* C2: add_entity(e) is rejected exactly when e is already a node and
\* add_relation(r) exactly when an endpoint is missing or the ordered pair
\* already has an edge; a rejected add leaves nodes and edges as they were
\* and an accepted one adds exactly the entity or the relation.
C2_Step ==
    /\ last'.op = "add_entity" =>
         /\ (last'.out # "ok") <=> (last'.a \in NodeSet(graph))
         /\ last'.out # "ok" => graph' = graph
         /\ last'.out = "ok" =>
              /\ NodeSet(graph') = NodeSet(graph) \cup {last'.a}
              /\ Edges(graph') = Edges(graph)
    /\ last'.op = "add_relation" =>
         /\ (last'.out # "ok") <=>
               \/ last'.a \notin NodeSet(graph)
               \/ last'.b \notin NodeSet(graph)
               \/ <<last'.a, last'.b>> \in Edges(graph)
         /\ last'.out # "ok" => graph' = graph
         /\ last'.out = "ok" =>
              /\ NodeSet(graph') = NodeSet(graph)
              /\ Edges(graph') = Edges(graph) \cup {<<last'.a, last'.b>>}

C2_AddContract == [][C2_Step]_vars

C2_Witness ==
    /\ last.op = "add_relation" /\ last.out = "ValueError"
    /\ HasEdge(graph, last.a, last.b)

\* C3: add_entity and add_relation never modify the graph they are called
\* on: whatever step of whatever add the writer has reached, the graph a
\* reader holds has the node set and edge set the reader saw when it took it.
C3_SnapshotStable ==
    /\ heap[reader.ref] # Free
    /\ NodeSet(heap[reader.ref]) = reader.nodes
    /\ Edges(heap[reader.ref]) = reader.edges

C3_Witness ==
    /\ writer.pc = "mutated"
    /\ reader.ref # writer.self
    /\ heap[writer.new] # heap[reader.ref]
    /\ reader.nodes # {}

\* C4: on an acyclic graph topological_sort returns every node exactly once
\* and, for every edge a -> b, puts the dependency b before the dependent a.
C4_TopologicalOrder ==
    (last.op = "topological_sort" /\ Acyclic(graph)) =>
        /\ last.out.raised = "none"
        /\ Len(last.out.value) = Cardinality(NodeSet(graph))
        /\ Range(last.out.value) = NodeSet(graph)
        /\ \A e \in Edges(graph) :
              Position(last.out.value, e[2]) < Position(last.out.value, e[1])

C4_Witness ==
    /\ last.op = "topological_sort" /\ Acyclic(graph)
    /\ Cardinality(Edges(graph)) >= 3
    /\ last.out.raised = "none"

\* C5: topological_sort fails exactly when the graph is not a DAG, and then
\* with CycleDetectedError carrying a non-empty cycle that is one of the
\* chains find_circular_dependencies reports.
C5_CycleDetected ==
    last.op = "topological_sort" =>
        /\ (last.out.raised # "none") <=> ~Acyclic(graph)
        /\ last.out.raised # "none" =>
              /\ last.out.raised = "CycleDetectedError"
              /\ last.out.value # {}
              /\ last.out.value \in Range(find_circular_dependencies(graph))

\* C6: the strongly connected components partition the node set, two nodes
\* share a component exactly when each reaches the other, an acyclic graph
\* has singleton components only, and find_circular_dependencies returns
\* exactly the components with more than one node.
C6_Components ==
    /\ last.op = "find_strongly_connected_components" =>
         /\ UNION Range(last.out) = NodeSet(graph)
         /\ \A i \in DOMAIN last.out, j \in DOMAIN last.out :
               i # j => last.out[i] \cap last.out[j] = {}
         /\ \A i \in DOMAIN last.out : last.out[i] # {}
         /\ \A u \in NodeSet(graph), v \in NodeSet(graph) :
               (\E i \in DOMAIN last.out : u \in last.out[i] /\ v \in last.out[i])
                  <=> MutuallyReachable(graph, u, v)
         /\ Acyclic(graph) =>
               \A i \in DOMAIN last.out : Cardinality(last.out[i]) = 1
    /\ last.op = "find_circular_dependencies" =>
         /\ Range(last.out) =
               {c \in SUBSET NodeSet(graph) :
                   /\ Cardinality(c) > 1
                   /\ \A u \in c : \A v \in NodeSet(graph) :
                         v \in c <=> MutuallyReachable(graph, u, v)}
         /\ \A i \in DOMAIN last.out, j \in DOMAIN last.out :
               i # j => last.out[i] # last.out[j]

C6_Witness ==
    /\ last.op = "find_strongly_connected_components"
    /\ \E i \in DOMAIN last.out : Cardinality(last.out[i]) = 3
    /\ Len(last.out) = 2

\* C7: get_transitive_dependencies(x, max_depth=d) is exactly the set of
\* entities other than x within d hops of x along dependency edges (all
\* reachable ones for None), so it excludes x, contains the direct
\* dependencies when d >= 1 and grows with d; get_transitive_dependents is
\* the same along reversed edges.
C7_Expected(E, x, d) ==
    Within(E, x, IF d = NoneDepth THEN Len(IdSeq) ELSE d) \ {x}

C7_Transitive ==
    /\ last.op = "get_transitive_dependencies" =>
         /\ last.out = C7_Expected(Edges(graph), last.a, last.d)
         /\ last.a \notin last.out
         /\ (last.d = NoneDepth \/ last.d >= 1) =>
               Range(get_dependencies(graph, last.a)) \subseteq last.out
         /\ last.d = 1 => last.out = Range(get_dependencies(graph, last.a))
         /\ \A d \in 0..MaxDepth : (last.d = NoneDepth \/ d <= last.d) =>
               get_transitive_dependencies(graph, last.a, d) \subseteq last.out
    /\ last.op = "get_transitive_dependents" =>
         /\ last.out = C7_Expected(Inverse(Edges(graph)), last.a, last.d)
         /\ last.a \notin last.out
         /\ (last.d = NoneDepth \/ last.d >= 1) =>
               Range(get_dependents(graph, last.a)) \subseteq last.out
         /\ last.d = 1 => last.out = Range(get_dependents(graph, last.a))
         /\ \A d \in 0..MaxDepth : (last.d = NoneDepth \/ d <= last.d) =>
               get_transitive_dependents(graph, last.a, d) \subseteq last.out

C7_Witness ==
    /\ last.op = "get_transitive_dependencies" /\ last.d = 2
    /\ Cardinality(last.out) = 2
    /\ Cardinality(get_transitive_dependencies(graph, last.a, NoneDepth)) = 3

\* The number of nodes on the longest dependency chain that starts at v
\* (acyclic graphs only).
RECURSIVE ChainLen(_, _)
ChainLen(G, v) ==
    LET S == {ChainLen(G, G.succ[v][k]) : k \in DOMAIN G.succ[v]}
    IN  1 + (IF S = {} THEN 0 ELSE CHOOSE m \in S : \A n \in S : n <= m)

LongestChain(G) ==
    LET S == {ChainLen(G, v) : v \in NodeSet(G)}
    IN  CHOOSE m \in S : \A n \in S : n <= m

\* C8: on a non-empty acyclic graph find_critical_path returns a longest
\* dependency chain: consecutive entries are joined by depends-on edges and
\* the length is the largest number of nodes on any chain; on a graph with a
\* cycle it returns no critical path.
C8_CriticalPath ==
    last.op = "find_critical_path" =>
        IF Acyclic(graph)
        THEN NodeSet(graph) # {} =>
               /\ last.out # <<>>
               /\ \A k \in 1..(Len(last.out) - 1) :
                     HasEdge(graph, last.out[k], last.out[k + 1])
               /\ Len(last.out) = LongestChain(graph)
        ELSE last.out = <<>>

\* Solution.get_assignment: the value of the first matching assignment.
GetAssignment(solution, entity_id, attribute) ==
    LET hits == {i \in DOMAIN solution.assignments :
                    /\ solution.assignments[i].entity_id = entity_id
                    /\ solution.assignments[i].attribute = attribute}
    IN  IF hits = {} THEN Missing ELSE solution.assignments[Min(hits)].value

Solved == call.op = "solve" /\ call.solution.status \in {"optimal", "feasible"}

DurationOf(entity) ==
    IF entity.duration.kind = "absent" THEN 1 ELSE entity.duration.val

\* C9: a solution with status optimal or feasible gives every entity a
\* start_time and an end_time within the horizon with end = start +
\* duration, has A.end <= B.start for every precedence(A, B), and A.end <=
\* B.start or B.end <= A.start for every mutex(A, B).
C9_ScheduleValid ==
    Solved =>
      LET S(x) == GetAssignment(call.solution, x, "start_time")
          E(x) == GetAssignment(call.solution, x, "end_time")
      IN  /\ \A i \in DOMAIN call.entities :
                LET e == call.entities[i] IN
                /\ S(e.id) \in 0..Horizon
                /\ E(e.id) \in 0..Horizon
                /\ E(e.id) = S(e.id) + DurationOf(e)
          /\ \A i \in DOMAIN call.constraints :
                LET c == call.constraints[i] IN
                /\ c.type = "precedence" => E(c.entities[1]) <= S(c.entities[2])
                /\ c.type = "mutex" =>
                      \/ E(c.entities[1]) <= S(c.entities[2])
                      \/ E(c.entities[2]) <= S(c.entities[1])

C9_Witness ==
    /\ Solved
    /\ \E i \in DOMAIN call.constraints : call.constraints[i].type = "precedence"
    /\ \E i \in DOMAIN call.constraints : call.constraints[i].type = "mutex"
    /\ Len(call.entities) = 3

\* C10: for every choice constraint whose participants are all in the
\* entity list, an optimal or feasible solution holds a 'selected'
\* assignment for each participant and exactly one of them has value 1,
\* also when several choice constraints are given.
C10_ExactlyOneSelected ==
    Solved =>
      \A i \in DOMAIN call.constraints :
         LET c == call.constraints[i] IN
         (/\ c.type = "choice"
          /\ Range(c.entities) \subseteq {call.entities[k].id : k \in DOMAIN call.entities})
         =>
         /\ \A x \in Range(c.entities) :
               GetAssignment(call.solution, x, "selected") # Missing
         /\ Cardinality({x \in Range(c.entities) :
               GetAssignment(call.solution, x, "selected") = 1}) = 1

SolveReturned == call.op = "solve" /\ call.raised = NoExc

EntityIds(entities) == {entities[k].id : k \in DOMAIN entities}

\* A constraint _encode_constraints cannot encode although its type is
\* supported: precedence or mutex with fewer than two participants or with
\* a participant that is not in the entity list.
IllFormed(c, entities) ==
    /\ c.type \in {"precedence", "mutex"}
    /\ \/ Len(c.entities) < 2
       \/ ~({c.entities[1], c.entities[2]} \subseteq EntityIds(entities))

Unsupported(c) == c.type \notin get_capabilities

FirstUnsupported(constraints) ==
    LET U == {i \in DOMAIN constraints : Unsupported(constraints[i])}
    IN  IF U = {} THEN 0 ELSE Min(U)

C19_TimeoutStatus ==
    (call.op = "solve" /\ call.backend = "UNKNOWN") =>
       call.raised = NoExc /\ call.solution.status = "timeout"

\* The problem can be encoded and its model has a satisfying assignment.
Encodable(entities, constraints) == EncodeProblem(entities, constraints).raised = NoExc
Feasible(entities, constraints) ==
    /\ Encodable(entities, constraints)
    /\ Solutions(EncodeProblem(entities, constraints).model) # {}
Infeasible(entities, constraints) ==
    /\ Encodable(entities, constraints)
    /\ Solutions(EncodeProblem(entities, constraints).model) = {}

\* C13: find_unsat_core fails with the "problem is feasible" error exactly
\* when the problem has a satisfying assignment: never for an infeasible
\* problem, and not because the first check ended undecided.
C13_ProblemIsFeasible ==
    call.op = "find_unsat_core" =>
       ((call.raised.msg = FeasibleMsg) <=> Feasible(call.entities, call.constraints))

\* The positions whose removal leaves a feasible problem, in list order.
Removable(entities, constraints) ==
    SelectSeq([k \in DOMAIN constraints |-> k],
              LAMBDA i : Feasible(entities, Without(constraints, i)))

\* C14: for an infeasible problem with N constraints find_unsat_core makes
\* N re-solves and reports exactly the constraints whose removal alone
\* leaves a feasible problem, or all constraints when there is none; the
\* reported set is not empty and there is at least one relaxation.
C14_UnsatCore ==
    (call.op = "find_unsat_core" /\ Infeasible(call.entities, call.constraints)) =>
       /\ call.raised = NoExc
       /\ call.out.kind = "UnsatCore"
       /\ call.out.resolves = Len(call.constraints)
       /\ LET R == Removable(call.entities, call.constraints) IN
          call.out.conflicting_constraints =
             IF R # <<>> THEN R ELSE [k \in DOMAIN call.constraints |-> k]
       /\ call.out.conflicting_constraints # <<>>
       /\ Len(call.out.suggested_relaxations) >= 1

\* The schedule a solution's assignments describe meets the durations, the
\* precedence and the mutex constraints.
MeetsConstraints(solution, entities, constraints) ==
    LET S(x) == GetAssignment(solution, x, "start_time")
        E(x) == GetAssignment(solution, x, "end_time")
    IN  /\ \A i \in DOMAIN entities :
              /\ S(entities[i].id) \in 0..Horizon
              /\ E(entities[i].id) = S(entities[i].id) + DurationOf(entities[i])
        /\ \A i \in DOMAIN constraints :
              LET c == constraints[i] IN
              /\ c.type = "precedence" => E(c.entities[1]) <= S(c.entities[2])
              /\ c.type = "mutex" =>
                    \/ E(c.entities[1]) <= S(c.entities[2])
                    \/ E(c.entities[2]) <= S(c.entities[1])

\* The solutions a SolutionSet holds: none when its optimal is infeasible.
AltReturned(out) ==
    IF out.optimal.status = "infeasible" THEN <<>>
    ELSE <<out.optimal>> \o out.alternatives

\* C15: find_alternatives returns at most max_solutions solutions, optimal
\* and alternatives together, pairwise distinct as decoded assignments,
\* each meeting the constraints, with total_feasible the number returned;
\* for a problem without solution the optimal is infeasible, there is no
\* alternative and total_feasible is 0.
C15_Alternatives ==
    (call.op = "find_alternatives" /\ call.raised = NoExc) =>
       LET R == AltReturned(call.out) IN
       /\ Len(R) <= call.max_solutions
       /\ \A i \in DOMAIN R, j \in DOMAIN R :
             i # j => R[i].assignments # R[j].assignments
       /\ \A i \in DOMAIN R : MeetsConstraints(R[i], call.entities, call.constraints)
       /\ call.out.total_feasible = Len(R)
       /\ Solutions(Encode(call.entities, call.constraints, call.objective).model) = {}
             => /\ call.out.optimal.status = "infeasible"
                /\ call.out.alternatives = <<>>
                /\ call.out.total_feasible = 0

C17_NoLeak ==
    /\ call.op = "solve" =>
          LET st == EncodeFrom(NewSolver, call.entities, call.constraints, call.objective)
          IN  /\ [raised |-> call.raised, value |-> call.solution,
                   backend |-> call.backend]
                    \in {SolveExcept(x) : x \in SolveTry(st, call.entities)}
              /\ solver.model = st.model /\ solver.variables = st.variables
    /\ call.op = "find_alternatives" =>
          LET st == EncodeFrom(NewSolver, call.entities, call.constraints, call.objective)
          IN  /\ [raised |-> call.raised, out |-> call.out]
                    \in AlternativesResults(st, call.entities, call.max_solutions)
              /\ solver.model = st.model /\ solver.variables = st.variables
    /\ call.op = "find_unsat_core" =>
          \E r \in UnsatCoreResults(NewSolver, call.entities, call.constraints) :
             /\ r.raised = call.raised /\ r.out = call.out
             /\ solver.model = r.st.model /\ solver.variables = r.st.variables
    /\ call.op \in {"solve", "find_alternatives", "find_unsat_core"} =>
          \A x \in Ids :
             (\A i \in DOMAIN call.constraints :
                 call.constraints[i].type = "choice" =>
                    x \notin Range(call.constraints[i].entities))
             => /\ solver.variables[<<x, "selected">>] = Missing
                /\ GetAssignment(call.solution, x, "selected") = Missing

\* A solve without choice constraint, answered with a schedule, on an
\* instance whose table held a 'selected' flag when the call began.
C17_Witness ==
    /\ call.op = "solve"
    /\ call.solution.status = "optimal"
    /\ \A i \in DOMAIN call.constraints : call.constraints[i].type # "choice"
    /\ <<"b", "selected">> \in solver.entry

\* C18: when the statements of two solve calls on one instance interleave,
\* each call returns what it returns when it runs alone: a Solution of its
\* own problem whose assignments name its own entities only.
C18_ConcurrentSolves ==
    \A t \in Threads :
       threads[t].pc = "done" =>
          /\ threads[t].raised = NoExc
          /\ threads[t].solution \in
                {SolveExcept(x).value :
                   x \in SolveTry(EncodeFrom(NewSolver, threads[t].entities,
                                              threads[t].constraints, "none"),
                                   threads[t].entities)}
          /\ \A i \in DOMAIN threads[t].solution.assignments :
                threads[t].solution.assignments[i].entity_id
                   \in EntityIds(threads[t].entities)

\* No way from source to target: an endpoint is not a node, or both are
\* nodes, distinct, and no directed path joins them.
NoRoute(G, source_id, target_id) ==
    \/ ~HasNode(G, source_id)
    \/ ~HasNode(G, target_id)
    \/ source_id # target_id /\ <<source_id, target_id>> \notin PathPairs(G)

\* C20: find_path returns None and find_all_paths returns an empty list
\* whenever the source or the target is not a node of the graph (source =
\* target included), and whenever both are nodes without a directed path
\* from the source to the target.
C20_NoRouteNoPath ==
    /\ last.op = "find_path" /\ NoRoute(graph, last.a, last.b)
          => last.out = NoPath
    /\ last.op = "find_all_paths" /\ NoRoute(graph, last.a, last.b)
          => last.out = <<>>

\* A path without repeated node from source to target along edges of G.
SimplePath(G, p, source_id, target_id) ==
    /\ p # <<>>
    /\ p[1] = source_id
    /\ p[Len(p)] = target_id
    /\ \A i \in 1..(Len(p) - 1) : HasEdge(G, p[i], p[i + 1])
    /\ \A i, j \in 1..Len(p) : p[i] = p[j] => i = j

AtMostMaxPaths == last.op = "find_all_paths" => Len(last.out) <= last.d

ShortestFirst ==
    last.op = "find_all_paths" /\ last.out # <<>>
       => Len(last.out[1]) = Len(find_path(graph, last.a, last.b).path)

\* C21: for every max_paths >= 0, find_all_paths returns at most max_paths
\* paths, each a simple path from the source to the target along graph
\* edges, in non-decreasing order of length, the first of them as long as
\* the path find_path returns.
C21_AllPaths ==
    /\ AtMostMaxPaths
    /\ last.op = "find_all_paths"
          => /\ \A i \in 1..Len(last.out) :
                   SimplePath(graph, last.out[i], last.a, last.b)
             /\ \A i \in 1..(Len(last.out) - 1) :
                   Len(last.out[i]) <= Len(last.out[i + 1])
    /\ ShortestFirst

\* C22: is_reachable(x, x) is true for every id x, a node or not;
\* is_reachable(a, b) and is_reachable(b, c) imply is_reachable(a, c); and
\* for distinct nodes is_reachable is true exactly when find_path returns
\* a path.
C22_Reachable ==
    last.op = "is_reachable" =>
       /\ last.a = last.b => last.out
       /\ \A c \in Ids :
             last.out /\ is_reachable(graph, last.b, c)
                => is_reachable(graph, last.a, c)
       /\ last.a # last.b /\ HasNode(graph, last.a) /\ HasNode(graph, last.b)
             => (last.out <=> ~find_path(graph, last.a, last.b).none)

\* is_reachable(a, b) answered true for distinct nodes, with a third node
\* reachable from b, and an id that is not a node.
C22_Witness ==
    /\ last.op = "is_reachable"
    /\ last.a # last.b
    /\ last.out
    /\ \E c \in NodeSet(graph) \ {last.a, last.b} : is_reachable(graph, last.b, c)
    /\ \E x \in Ids : ~HasNode(graph, x) /\ is_reachable(graph, x, x)

\* C23: for every edge a -> b, b is in get_dependencies(a) and a is in
\* get_dependents(b); the two queries return the direct successors and
\* predecessors only, and an empty list for an id that is not a node.
C23_DirectNeighbours ==
    /\ last.op = "add_relation" /\ last.out = "ok"
          => /\ last.b \in Range(get_dependencies(graph, last.a))
             /\ last.a \in Range(get_dependents(graph, last.b))
    /\ \A e \in Edges(graph) :
          /\ e[2] \in Range(get_dependencies(graph, e[1]))
          /\ e[1] \in Range(get_dependents(graph, e[2]))
    /\ last.op = "get_dependencies"
          => Range(last.out) = {b \in Ids : <<last.a, b>> \in Edges(graph)}
    /\ last.op = "get_dependents"
          => Range(last.out) = {a \in Ids : <<a, last.a>> \in Edges(graph)}
    /\ last.op \in {"get_dependencies", "get_dependents"} /\ ~HasNode(graph, last.a)
          => last.out = <<>>

\* get_dependents answered with two dependents, in a graph that also has
\* an id that is not a node.
C23_Witness ==
    /\ last.op = "get_dependents"
    /\ Len(last.out) = 2
    /\ \E x \in Ids : ~HasNode(graph, x)

\* The number of hops of the longest chain of edges of one direction that
\* starts at v (acyclic graphs only).
RECURSIVE LongestHops(_, _, _)
LongestHops(G, direction, v) ==
    LET next == Neighbours(G, direction, v)
        S    == {1 + LongestHops(G, direction, next[k]) : k \in DOMAIN next}
    IN  IF S = {} THEN 0 ELSE CHOOSE m \in S : \A n \in S : n <= m

\* C24: on every acyclic graph max_depth_to_dependents is the number of
\* hops of the longest chain of dependent edges starting at the entity, and
\* max_depth_from_dependencies that of the longest chain of dependency
\* edges, in whatever order the neighbours are visited.
C24_MaxDepth ==
    /\ last.op = "calculate_impact_metrics"
    /\ HasNode(graph, last.a)
    /\ Acyclic(graph)
    => /\ last.out.raised = "none"
       /\ last.out.metrics.max_depth_to_dependents
             = LongestHops(graph, "dependents", last.a)
       /\ last.out.metrics.max_depth_from_dependencies
             = LongestHops(graph, "dependencies", last.a)

Isolated(G, e) ==
    HasNode(G, e) /\ get_dependencies(G, e) = <<>> /\ get_dependents(G, e) = <<>>

\* C25: for every entity without dependencies and without dependents,
\* analyze_change_impact returns a risk_score strictly below 0.2.
C25_IsolatedRisk ==
    last.op = "analyze_change_impact" /\ Isolated(graph, last.a)
       => last.out.raised = "none" /\ last.out.risk_score < 2000

Analysed == last.op = "analyze_change_impact" /\ last.out.raised = "none"

Advised(rec) == rec \in Range(last.out.recommendations)

NoNumber(entity) == entity.duration.kind \in {"absent", "str"}

\* The entities with duration 1 in place of an absent or non-numeric one.
WithDefault(entities) ==
    [i \in DOMAIN entities |->
       IF NoNumber(entities[i]) THEN [entities[i] EXCEPT !.duration = DurInt(1)]
       ELSE entities[i]]

\* C26: an entity whose metadata duration is absent or not a number is
\* scheduled with end_time = start_time + 1, and solve ends in the status
\* it ends in when the duration is 1.
C26_DurationDefault ==
    /\ call.op = "solve"
    /\ \E i \in DOMAIN call.entities : NoNumber(call.entities[i])
    => /\ \E x \in SolveTry(EncodeFrom(NewSolver, WithDefault(call.entities),
                                       call.constraints, call.objective),
                            WithDefault(call.entities)) :
             /\ x.backend = call.backend
             /\ SolveExcept(x).value.status = call.solution.status
       /\ call.solution.status \in {"optimal", "feasible"} =>
             \A i \in DOMAIN call.entities :
                NoNumber(call.entities[i]) =>
                   GetAssignment(call.solution, call.entities[i].id, "end_time")
                      = GetAssignment(call.solution, call.entities[i].id, "start_time") + 1

\* C27: for every max_solutions >= 0 the search of find_alternatives ends
\* once max_solutions solutions have been recorded: the backend does not
\* go on to a further solution and hand it to the callback.
C27_StopAtMaxSolutions ==
    call.op = "find_alternatives" /\ call.out.kind = "SolutionSet"
       => call.out.callbacks <= call.max_solutions

ReadOnlyQueries ==
    {"get_all", "get_latest", "get_highest_confidence", "get_by_source",
     "has_conflicts", "get_aggregate_confidence"}

WithRecords(L) == {e \in LedgerIds : L.records[e] # <<>>}

\* C30: after any sequence of record, validate and read-only query calls,
\* total_entities of get_statistics is the number of entities that have at
\* least one provenance record; the read-only queries, and validate for an
\* entity without records, leave every statistic as it was.
C30_Statistics ==
    /\ get_statistics(ledger).total_entities = Cardinality(WithRecords(ledger))
    /\ \/ probe.op \in ReadOnlyQueries
       \/ probe.op = "validate" /\ probe.entity \notin WithRecords(ledger)
       => probe.after = probe.before

=============================================================================
